---------------------------- MODULE Spec2Model ----------------------------
(***************************************************************************)
(* Musical key detector: the App component (src/unnamed/part_003), the     *)
(* SmartAudioProcessor (src/src/utils/audioProcessor.ts) and the           *)
(* KeyDetector (src/src/utils/keyDetection.ts) as one state machine.       *)
(*                                                                         *)
(* Units.  Real numbers of the code are fixed-point integers here:         *)
(*   chroma entries      1/ChromaScale   (a vector that sums to 1 sums to  *)
(*                                        ChromaScale)                     *)
(*   correlation scores  1/ScoreScale                                      *)
(*   confidences         1/ConfScale                                       *)
(*   amplitudes          whole dB                                          *)
(*   noise floor         1/NfScale dB                                      *)
(*   times               milliseconds (Date.now())                         *)
(*   frequencies         whole Hz                                          *)
(***************************************************************************)
EXTENDS Integers, Sequences, FiniteSets, TLC

VARIABLES
    \* ---- App (React state and the closures it hands out)
    isRecording,          \* useState isRecording
    isInitialized,        \* useState isInitialized
    keyOverride,          \* useState keyOverride: [isActive, selectedKey, selectedMode]
    detectedKey,          \* useState detectedKey: NULL or a KeyDetectionResult
    mounted,              \* the mount effect (initAudio) has run
    \* ---- KeyDetector
    keyHistory,           \* KeyDetector.keyHistory
    \* ---- SmartAudioProcessor
    audioContext,         \* "none" | "running" (a closed context is dropped at once)
    analyser,             \* BOOLEAN: an AnalyserNode is held
    mediaStream,          \* 0 (null) or the id of the held MediaStream
    isProcessing,
    animationFrame,       \* 0 (null) or the id returned by requestAnimationFrame
    noiseFloor,
    thresholdMin,         \* noiseGate.thresholdMin
    gateThreshold,
    currentState,
    pitchHistory,
    harmonicHistory,
    pitchStabilityHistory,
    amplitudeHistory,
    beatHistory,
    lastBeatTime,
    tempoHistory,
    melodySequence,
    chordSequence,
    lastMelodyNote,
    lastMelodyNoteTime,
    lastChordNotes,
    lastChordTime,
    polyphonicMode,
    \* ---- browser environment
    period,               \* ms between two animation frames of this run
    now,                  \* Date.now()
    frames,               \* pending requestAnimationFrame callbacks: set of [id, cb]
    pendingInit,          \* initialize() calls suspended at getUserMedia
    liveStreams,          \* ids of granted MediaStreams whose tracks are not stopped
    requests,             \* getUserMedia calls made so far
    \* ---- observations of the last call (return values, callback arguments)
    delivered,            \* argument of the last onAudioData call, NULL before any
    rhythmOut,            \* RhythmData returned by the last analyzeRhythm, NULL before any
    keyResult,            \* return value of the last detectKey call
    rawResult,            \* the unsmoothed result of the last accepted detectKey
    lastOp,               \* name and facts of the last operation
    accepted,             \* accepted detections since the last reset(), newest last
    beatsSeen,            \* beats registered since the last cleanup()
    uniformSpacing,       \* 0, or the spacing shared by all beats since cleanup(); -1 if none
    lastCleared,          \* entries the last KeyDetector.reset() removed, -1 before any
    ticks,                \* runs of the frame pipeline so far
    calls                 \* direct KeyDetector calls so far

appVars  == <<isRecording, isInitialized, keyOverride, detectedKey, mounted>>
keyVars  == <<keyHistory, keyResult, rawResult, accepted, lastCleared>>
resVars  == <<audioContext, analyser, mediaStream, liveStreams, requests, pendingInit>>
loopVars == <<isProcessing, animationFrame, frames>>
gateVars == <<noiseFloor, thresholdMin, gateThreshold>>
histVars == <<pitchHistory, harmonicHistory, pitchStabilityHistory>>
rhythmVars == <<amplitudeHistory, beatHistory, lastBeatTime, tempoHistory,
                beatsSeen, uniformSpacing, rhythmOut>>
harmonyVars == <<melodySequence, chordSequence, lastMelodyNote, lastMelodyNoteTime,
                 lastChordNotes, lastChordTime, polyphonicMode>>
obsVars  == <<delivered, currentState>>

vars == <<appVars, keyVars, resVars, loopVars, gateVars, histVars, rhythmVars,
          harmonyVars, obsVars, period, now, lastOp, ticks, calls>>

\* null where the value would be an object
NULL == [null |-> TRUE]

\* null where the value would be a note name
NoNote == "null"

\* null where the value would be a chroma vector (calculateChroma always
\* returns twelve bins, so the empty sequence is free to stand for null)
NoChroma == <<>>

(***************************************************************************)
(* Generic helpers                                                         *)
(***************************************************************************)
Min(a, b) == IF a < b THEN a ELSE b
Max(a, b) == IF a > b THEN a ELSE b
Abs(a) == IF a < 0 THEN -a ELSE a

RECURSIVE SumSeq(_)
SumSeq(s) == IF s = <<>> THEN 0 ELSE Head(s) + SumSeq(Tail(s))

\* Math.round(n / d) for d > 0: the nearest integer, halves rounded up.
RoundDiv(n, d) == (2 * n + d) \div (2 * d)

\* A push that drops the new entry when the array is full
PushKeepingOldest(h, x, cap) == IF Len(h) >= cap THEN h ELSE Append(h, x)

\* Array.push followed by "if (length > cap) shift()".
PushCapped(h, x, cap) ==
    LET h2 == Append(h, x) IN IF Len(h2) > cap THEN Tail(h2) ELSE h2

\* floor(sqrt(n)) by bisection on [lo, hi].
RECURSIVE SqrtBetween(_, _, _)
SqrtBetween(n, lo, hi) ==
    IF lo >= hi THEN lo
    ELSE LET mid == (lo + hi + 1) \div 2
         IN  IF mid * mid <= n THEN SqrtBetween(n, mid, hi)
             ELSE SqrtBetween(n, lo, mid - 1)

ISqrt(n) == SqrtBetween(n, 0, 46340)

(***************************************************************************)
(* KeyDetector (keyDetection.ts)                                           *)
(***************************************************************************)
\* Krumhansl-Schmuckler profiles, in hundredths.
KEY_PROFILES ==
    [major |-> <<635, 223, 348, 233, 438, 409, 252, 519, 239, 366, 229, 288>>,
     minor |-> <<633, 268, 352, 538, 260, 353, 254, 475, 398, 269, 334, 317>>]

NOTE_NAMES == <<"C", "C#", "D", "D#", "E", "F", "F#", "G", "G#", "A", "A#", "B">>

Modes == <<"major", "minor">>

historyLength == 5

ChromaScale == 1000
ScoreScale == 1000
ConfScale == 10000

\* confidenceThreshold = 0.05
confidenceThreshold == (5 * ConfScale) \div 100

\* |corr| / (sc * sp) in 1/ScoreScale, for corr >= 0, computed without overflow.
ScaledQuotient(corr, sc, sp) ==
    LET a == corr \div sp
        b == corr % sp
    IN  (a * ScoreScale + (b * ScoreScale) \div sp) \div sc

\* The correlation of the chroma as it stands, whatever the root
ScoreWithoutRotation(chroma, root, mode) ==
    LET profile == KEY_PROFILES[mode]
        chromaTot == SumSeq(chroma)
        profileTot == SumSeq(profile)
        chromaVal(i) == 12 * chroma[i] - chromaTot
        profileVal(i) == 12 * profile[i] - profileTot
        correlation == SumSeq([i \in 1..12 |-> chromaVal(i) * profileVal(i)])
        chromaSum == SumSeq([i \in 1..12 |-> chromaVal(i) * chromaVal(i)])
        profileSum == SumSeq([i \in 1..12 |-> profileVal(i) * profileVal(i)])
    IN  IF chromaSum = 0 \/ profileSum = 0 THEN 0
        ELSE LET q == ScaledQuotient(Abs(correlation), ISqrt(chromaSum), ISqrt(profileSum))
             IN  IF correlation < 0 THEN -q ELSE q

\* Pearson correlation of the chroma rotated to root with the mode's profile.
\* Both vectors are centred times 12, which leaves the coefficient unchanged.
calculateKeyScore(chroma, root, mode) ==
    LET profile == KEY_PROFILES[mode]
        rot(i) == chroma[((i + root) % 12) + 1]
        chromaTot == SumSeq([i \in 1..12 |-> rot(i - 1)])
        profileTot == SumSeq(profile)
        chromaVal(i) == 12 * rot(i) - chromaTot
        profileVal(i) == 12 * profile[i + 1] - profileTot
        correlation == SumSeq([i \in 1..12 |-> chromaVal(i - 1) * profileVal(i - 1)])
        chromaSum == SumSeq([i \in 1..12 |-> chromaVal(i - 1) * chromaVal(i - 1)])
        profileSum == SumSeq([i \in 1..12 |-> profileVal(i - 1) * profileVal(i - 1)])
    IN  IF chromaSum = 0 \/ profileSum = 0 THEN 0
        ELSE LET q == ScaledQuotient(Abs(correlation), ISqrt(chromaSum), ISqrt(profileSum))
             IN  IF correlation < 0 THEN -q ELSE q

\* Math.max(0, Math.min(1, (score + 1) / 2)), in 1/ConfScale.
normalizeScore(score) ==
    Max(0, Min(ConfScale, ((score + ScoreScale) * ConfScale) \div (2 * ScoreScale)))

\* The 24 candidates in the order of the two nested loops.
KeyCandidates ==
    [k \in 1..24 |-> [root |-> (k - 1) \div 2, mode |-> Modes[((k - 1) % 2) + 1]]]

\* The loop of detectKey: the first candidate with the strictly greatest score.
RECURSIVE BestKeyFrom(_, _, _)
BestKeyFrom(chroma, k, best) ==
    IF k > 24 THEN best
    ELSE LET c == KeyCandidates[k]
             score == calculateKeyScore(chroma, c.root, c.mode)
         IN  IF best = NULL \/ score > best.score
             THEN BestKeyFrom(chroma, k + 1,
                              [key |-> NOTE_NAMES[c.root + 1], mode |-> c.mode, score |-> score])
             ELSE BestKeyFrom(chroma, k + 1, best)

\* addToHistory without the shift()
PushUnbounded(history, result) == Append(history, result)

\* addToHistory
addToHistory(history, result) == PushCapped(history, result, historyLength)

\* keyCount[`${key}_${mode}`] over the history
CountOf(history, r) ==
    Cardinality({i \in 1..Len(history) :
                    history[i].key = r.key /\ history[i].mode = r.mode})

\* Object.entries iterates the pairs in the order they first entered keyCount;
\* "count > maxCount" keeps the first pair that reaches the greatest count.
RECURSIVE MostCommonFrom(_, _, _)
MostCommonFrom(history, i, best) ==
    IF i > Len(history) THEN best
    ELSE LET n == CountOf(history, history[i])
         IN  IF best = NULL \/ n > best.count
             THEN MostCommonFrom(history, i + 1,
                      [key |-> history[i].key, mode |-> history[i].mode, count |-> n])
             ELSE MostCommonFrom(history, i + 1, best)

\* The newest confidence, not scaled by the share of the votes
UnscaledConfidence(maxCount, latestConfidence) == Min(ConfScale, latestConfidence)

\* Math.min(1, (maxCount / historyLength) * latestResult.confidence)
SmoothedConfidence(maxCount, latestConfidence) ==
    Min(ConfScale, (maxCount * latestConfidence) \div historyLength)

\* getSmoothedResult that votes whatever the length of the history
VoteAlways(history) ==
    LET mc == MostCommonFrom(history, 1, NULL)
        latestResult == history[Len(history)]
    IN  [key |-> mc.key, mode |-> mc.mode,
         confidence |-> SmoothedConfidence(mc.count, latestResult.confidence),
         chroma |-> latestResult.chroma]

getSmoothedResult(history) ==
    IF Len(history) = 0 THEN NULL
    ELSE IF Len(history) < 3 THEN history[Len(history)]
    ELSE LET mc == MostCommonFrom(history, 1, NULL)
             latestResult == history[Len(history)]
         IN  [key |-> mc.key, mode |-> mc.mode,
              confidence |-> SmoothedConfidence(mc.count, latestResult.confidence),
              chroma |-> latestResult.chroma]

\* detectKey before the history is touched, without the test of the sum
AcceptAnySum(chroma) ==
    IF Len(chroma) # 12 THEN NULL
    ELSE LET best == BestKeyFrom(chroma, 1, NULL)
         IN  [key |-> best.key, mode |-> best.mode,
              confidence |-> normalizeScore(best.score), chroma |-> chroma]

\* The part of detectKey before the history is touched: NULL when the chroma
\* is rejected, else the unsmoothed KeyDetectionResult.
RawDetect(chroma) ==
    IF Len(chroma) # 12 THEN NULL
    ELSE IF SumSeq(chroma) * 100 < ChromaScale THEN NULL
    ELSE LET best == BestKeyFrom(chroma, 1, NULL)
             confidence == normalizeScore(best.score)
         IN  IF confidence < confidenceThreshold THEN NULL
             ELSE [key |-> best.key, mode |-> best.mode,
                   confidence |-> confidence, chroma |-> chroma]

\* reset() that forgets nothing
KeepHistory(history) == history

\* reset
resetHistory(history) == <<>>

(***************************************************************************)
(* SmartAudioProcessor: pure parts of the per-frame pipeline               *)
(***************************************************************************)
NfScale == 1000000

\* a noise floor that stays where it is
FrozenNoiseFloor(floor, amplitudeDB) == floor

\* updateNoiseFloor: noiseFloor * (1 - alpha) + amplitudeDB * alpha, alpha = 0.001
updateNoiseFloor(floor, amplitudeDB) ==
    floor + (amplitudeDB * NfScale - floor) \div 1000

\* a gate that only compares with thresholdMin
GateAboveMinimumOnly(floor, thrMin, amplitudeDB) == amplitudeDB > thrMin

\* a gate that only compares with the noise floor
GateAboveFloorOnly(floor, thrMin, amplitudeDB) == amplitudeDB * NfScale > floor + 8 * NfScale

\* applyNoiseGate: amplitudeDB > Math.max(noiseFloor + 8, thresholdMin)
applyNoiseGate(floor, thrMin, amplitudeDB) ==
    amplitudeDB * NfScale > Max(floor + 8 * NfScale, thrMin * NfScale)

\* 12 * log2(num / den) in 1/1024 semitone, by repeated squaring of the
\* mantissa (14 fractional bits, 10 bits of the logarithm).  It stands for
\* Math.log2 and is off by less than 0.01 semitone.
RECURSIVE NormUp(_, _, _)
NormUp(num, den, e) == IF num >= 2 * den THEN NormUp(num, 2 * den, e + 1) ELSE <<num, den, e>>

RECURSIVE NormDown(_, _, _)
NormDown(num, den, e) == IF num < den THEN NormDown(2 * num, den, e - 1) ELSE <<num, den, e>>

RECURSIVE LogBits(_, _, _)
LogBits(x, frac, n) ==
    IF n = 0 THEN frac
    ELSE LET sq == (x * x) \div 16384
         IN  IF sq >= 32768 THEN LogBits(sq \div 2, 2 * frac + 1, n - 1)
             ELSE LogBits(sq, 2 * frac, n - 1)

Semitones1024(num, den) ==
    LET up == NormUp(num, den, 0)
        dn == NormDown(up[1], up[2], up[3])
        x  == (dn[1] * 16384) \div dn[2]
    IN  12 * (dn[3] * 1024 + LogBits(x, 0, 10))

\* Math.round(12 * Math.log2(frequency / 440) + 69)
MidiNumber(frequency) == RoundDiv(Semitones1024(frequency, 440), 1024) + 69

\* frequencyToNote(frequency).name
frequencyToNote(frequency) == NOTE_NAMES[(MidiNumber(frequency) % 12) + 1]

\* calculateSemitones: Math.round(12 * Math.log2(freq2 / freq1))
calculateSemitones(freq1, freq2) == RoundDiv(Semitones1024(freq2, freq1), 1024)

Take(s, n) == SubSeq(s, 1, Min(n, Len(s)))
LastN(s, n) == SubSeq(s, Max(1, Len(s) - n + 1), Len(s))

Pitch(f, c) == [frequency |-> f, confidence |-> c]
Bin(f, level) == [frequency |-> f, level |-> level]

\* ---- detectMultiplePitches
\* A stricter filter on the spectral peaks
SpectralAcceptedAboveThreeQuarters(confidence) == 4 * confidence > 3 * ConfScale

\* spectralPitch.confidence > 0.3
SpectralAccepted(confidence) == 10 * confidence > 3 * ConfScale

IsDuplicate(pitches, sp) ==
    \E i \in 1..Len(pitches) : Abs(pitches[i].frequency - sp.frequency) < 10

RECURSIVE MergePeaks(_, _)
MergePeaks(pitches, peaks) ==
    IF peaks = <<>> THEN pitches
    ELSE LET sp == Head(peaks)
         IN  IF ~IsDuplicate(pitches, sp) /\ SpectralAccepted(sp.confidence)
             THEN MergePeaks(Append(pitches, sp), Tail(peaks))
             ELSE MergePeaks(pitches, Tail(peaks))

\* Array.sort((a, b) => b.key - a.key) is stable: an element goes behind
\* every element whose key is at least its own.
RECURSIVE InsertDesc(_, _)
InsertDesc(sorted, p) ==
    IF sorted = <<>> THEN <<p>>
    ELSE IF Head(sorted).key >= p.key
         THEN <<Head(sorted)>> \o InsertDesc(Tail(sorted), p)
         ELSE <<p>> \o sorted

RECURSIVE SortDescFrom(_, _)
SortDescFrom(todo, done) ==
    IF todo = <<>> THEN done
    ELSE SortDescFrom(Tail(todo), InsertDesc(done, Head(todo)))

SortByConfidence(s) ==
    LET keyed == [i \in 1..Len(s) |-> [key |-> s[i].confidence, item |-> s[i]]]
        sorted == SortDescFrom(keyed, <<>>)
    IN  [i \in 1..Len(s) |-> sorted[i].item]

\* Array.sort((a, b) => a.frequency - b.frequency)
SortByFrequency(s) ==
    LET keyed == [i \in 1..Len(s) |-> [key |-> 0 - s[i].frequency, item |-> s[i]]]
        sorted == SortDescFrom(keyed, <<>>)
    IN  [i \in 1..Len(s) |-> sorted[i].item]

MaxSimultaneous == 6

detectMultiplePitches(frame) ==
    LET first == IF frame.mono = NULL THEN <<>> ELSE <<frame.mono>>
    IN  Take(SortByConfidence(MergePeaks(first, frame.peaks)), MaxSimultaneous)

\* ---- detectSpectralPeaks
\* frequencyData holds the bins first, first + 1, ... of the analyser's
\* spectrum in whole dB; every other bin is silent.
sampleRate == 44100
fftSize == 4096
binCount == fftSize \div 2
SilentDB == -200

FrequencyData(first, levels) == [first |-> first, levels |-> levels]

MagnitudeDB(data, i) ==
    IF i >= data.first /\ i < data.first + Len(data.levels)
    THEN data.levels[i - data.first + 1]
    ELSE SilentDB

\* i * binWidth, to the nearest Hz
BinFrequency(i) == RoundDiv(i * sampleRate, 2 * binCount)

\* Math.min(1, Math.max(0, (prominence + 20) / 30))
PeakConfidence(prominence) ==
    Min(ConfScale, Max(0, ((prominence + 20) * ConfScale) \div 30))

Prominence(data, i) ==
    MagnitudeDB(data, i) - Max(MagnitudeDB(data, i - 1), MagnitudeDB(data, i + 1))

\* The body of the loop: bin i is pushed as a peak.
IsSpectralPeak(data, i) ==
    /\ i * sampleRate >= 80 * 2 * binCount
    /\ i * sampleRate <= 2000 * 2 * binCount
    /\ MagnitudeDB(data, i) > MagnitudeDB(data, i - 1)
    /\ MagnitudeDB(data, i) > MagnitudeDB(data, i + 1)
    /\ MagnitudeDB(data, i) > -40
    /\ 10 * PeakConfidence(Prominence(data, i)) > 2 * ConfScale

MaxSpectralPeaks == 8

detectSpectralPeaks(data) ==
    LET bins == [k \in 1..Len(data.levels) |-> data.first + k - 1]
        Pushed(i) == i >= 2 /\ i < binCount - 2 /\ IsSpectralPeak(data, i)
        found == SelectSeq(bins, Pushed)
        peaks == [k \in 1..Len(found) |->
                      Pitch(BinFrequency(found[k]),
                            PeakConfidence(Prominence(data, found[k])))]
    IN  Take(SortByConfidence(peaks), MaxSpectralPeaks)

\* ---- analyzeRhythm
StrengthScale == 10
amplitudeCap == 100
beatCap == 8
tempoCap == 5
defaultTempo == 120
beatGapMs == 200
onBeatMs == 100

\* detectOnset, in 1/StrengthScale
detectOnset(ampHist) ==
    IF Len(ampHist) < 3 THEN 0
    ELSE LET current == ampHist[Len(ampHist)]
             previous == ampHist[Len(ampHist) - 1]
             beforePrevious == ampHist[Len(ampHist) - 2]
             increase1 == current - previous
             increase2 == previous - beforePrevious
         IN  IF increase1 > 3 /\ 2 * increase1 > 3 * increase2
             THEN Min(StrengthScale, (increase1 * StrengthScale) \div 10)
             ELSE 0

\* beatStrength > 0.6 && (currentTime - lastBeatTime) > 200
IsBeat(beatStrength, currentTime, lastBeat) ==
    10 * beatStrength > 6 * StrengthScale /\ (currentTime - lastBeat) > beatGapMs

\* beats per second instead of per minute
TempoPerSecond(beats) == RoundDiv(1000 * (Len(beats) - 1), beats[Len(beats)] - beats[1])

\* Math.round(60000 / avgInterval), avgInterval the mean gap of the beat history
TempoOfBeats(beats) ==
    LET n == Len(beats) - 1
        total == beats[Len(beats)] - beats[1]
    IN  RoundDiv(60000 * n, total)

\* Math.round(mean of the tempo history)
SmoothedTempo(tempos) == RoundDiv(SumSeq(tempos), Len(tempos))

\* no clamp
Unclamped(tempo) == tempo

\* Math.max(60, Math.min(200, tempo))
ClampTempo(tempo) == Max(60, Min(200, tempo))

\* Math.max(1, Math.min(4, Math.floor(timeSinceLastBeat / (60000 / tempo)) + 1))
CurrentBeat(timeSinceLastBeat, tempo) ==
    Max(1, Min(4, ((timeSinceLastBeat * tempo) \div 60000) + 1))

IsOnBeat(timeSinceLastBeat) == timeSinceLastBeat < onBeatMs

\* analyzeRhythm on the rhythm fields r = [amplitudeHistory, beatHistory,
\* lastBeatTime, tempoHistory]: the fields after the call, and the RhythmData.
analyzeRhythm(r, amplitudeDB, currentTime) ==
    LET ampHist == PushCapped(r.amplitudeHistory, amplitudeDB, amplitudeCap)
        beatStrength == detectOnset(ampHist)
        beat == IsBeat(beatStrength, currentTime, r.lastBeatTime)
        beats == IF beat THEN PushCapped(r.beatHistory, currentTime, beatCap)
                 ELSE r.beatHistory
        lastBeat == IF beat THEN currentTime ELSE r.lastBeatTime
        enough == Len(beats) >= 4
        tempos == IF enough THEN PushCapped(r.tempoHistory, TempoOfBeats(beats), tempoCap)
                  ELSE r.tempoHistory
        tempo == IF enough THEN SmoothedTempo(tempos) ELSE defaultTempo
        timeSinceLastBeat == currentTime - lastBeat
    IN  [amplitudeHistory |-> ampHist,
         beatHistory |-> beats,
         lastBeatTime |-> lastBeat,
         tempoHistory |-> tempos,
         beat |-> beat,
         data |-> [tempo |-> ClampTempo(tempo),
                   beatStrength |-> beatStrength,
                   timeSignature |-> "4/4",
                   currentBeat |-> CurrentBeat(timeSinceLastBeat, tempo),
                   isOnBeat |-> IsOnBeat(timeSinceLastBeat)]]

\* getCurrentTempo
getCurrentTempo(tempos) ==
    IF Len(tempos) > 0 THEN tempos[Len(tempos)] ELSE defaultTempo

\* ---- analyzeMelodyHarmony
melodyNoteMemoryMs == 200
chordMemoryMs == 50
melodySequenceCap == 20
chordSequenceCap == 10

Harmony(melody, chord, rhythmData, type) ==
    [melodyNotes |-> melody, chordNotes |-> chord,
     rhythmData |-> rhythmData, harmonyType |-> type]

NoteData(pitches) ==
    [i \in 1..Len(pitches) |->
        [note |-> frequencyToNote(pitches[i].frequency),
         frequency |-> pitches[i].frequency,
         confidence |-> pitches[i].confidence]]

NotesOf(noteData) == [i \in 1..Len(noteData) |-> noteData[i].note]

\* n.confidence > 0.05
IsStrongNote(n) == 100 * n.confidence > 5 * ConfScale

\* (interval >= 3 && interval <= 4) || interval === 5 || interval === 7
IsChordInterval(interval) ==
    (interval >= 3 /\ interval <= 4) \/ interval = 5 \/ interval = 7

\* A chord interval between any two of the notes, neighbours or not
AnyPairChordIntervals(sortedNotes) ==
    \E i, j \in 1..Len(sortedNotes) :
        /\ i < j
        /\ IsChordInterval(calculateSemitones(sortedNotes[i].frequency,
                                              sortedNotes[j].frequency))

\* intervals.some(...) over the gaps of frequency-adjacent notes
HasChordIntervals(sortedNotes) ==
    \E i \in 2..Len(sortedNotes) :
        IsChordInterval(calculateSemitones(sortedNotes[i - 1].frequency,
                                           sortedNotes[i].frequency))

\* A polyphonic branch without the chord memory
PolyphonicWithoutMemory(m, noteData, rhythmData, currentTime) ==
    LET strongNotes == SelectSeq(noteData, IsStrongNote)
    IN  IF Len(strongNotes) >= 2
        THEN [mem |-> [m EXCEPT !.lastChordNotes = NotesOf(strongNotes),
                                !.lastChordTime = currentTime],
              out |-> Harmony(<<>>, NotesOf(strongNotes), rhythmData, "chord")]
        ELSE [mem |-> m, out |-> Harmony(<<>>, <<>>, rhythmData, "chord")]

\* The polyphonic branch.
PolyphonicHarmony(m, noteData, rhythmData, currentTime) ==
    LET strongNotes == SelectSeq(noteData, IsStrongNote)
    IN  IF Len(strongNotes) >= 2
        THEN [mem |-> [m EXCEPT !.lastChordNotes = NotesOf(strongNotes),
                                !.lastChordTime = currentTime],
              out |-> Harmony(<<>>, NotesOf(strongNotes), rhythmData, "chord")]
        ELSE IF Len(m.lastChordNotes) >= 2 /\ currentTime - m.lastChordTime < chordMemoryMs
        THEN [mem |-> m, out |-> Harmony(<<>>, m.lastChordNotes, rhythmData, "chord")]
        ELSE [mem |-> m, out |-> Harmony(<<>>, <<>>, rhythmData, "chord")]

\* A single-note branch that restarts the memory window when it re-emits
RefreshOnHold(m, detectedNote, rhythmData, currentTime) ==
    LET keep == /\ m.lastMelodyNote # detectedNote
                /\ m.lastMelodyNote # NoNote
                /\ currentTime - m.lastMelodyNoteTime < melodyNoteMemoryMs
        emitted == IF keep THEN m.lastMelodyNote ELSE detectedNote
        entry == [note |-> emitted, time |-> currentTime, duration |-> 0]
        seq == PushCapped(m.melodySequence, entry, melodySequenceCap)
    IN  [mem |-> [m EXCEPT !.melodySequence = seq,
                           !.lastMelodyNote = emitted,
                           !.lastMelodyNoteTime = currentTime],
         out |-> Harmony(<<emitted>>, <<>>, rhythmData, "melody")]

\* A single-note branch that holds a remembered note however old it is
HoldRememberedNote(m, detectedNote, rhythmData, currentTime) ==
    LET keep == m.lastMelodyNote # detectedNote /\ m.lastMelodyNote # NoNote
        emitted == IF keep THEN m.lastMelodyNote ELSE detectedNote
        entry == [note |-> emitted, time |-> currentTime, duration |-> 0]
        seq == PushCapped(m.melodySequence, entry, melodySequenceCap)
    IN  [mem |-> IF keep THEN [m EXCEPT !.melodySequence = seq]
                 ELSE [m EXCEPT !.melodySequence = seq,
                                !.lastMelodyNote = detectedNote,
                                !.lastMelodyNoteTime = currentTime],
         out |-> Harmony(<<emitted>>, <<>>, rhythmData, "melody")]

\* The single-note branch with its note memory.
SingleNoteHarmony(m, detectedNote, rhythmData, currentTime) ==
    LET keep == /\ m.lastMelodyNote # detectedNote
                /\ m.lastMelodyNote # NoNote
                /\ currentTime - m.lastMelodyNoteTime < melodyNoteMemoryMs
        emitted == IF keep THEN m.lastMelodyNote ELSE detectedNote
        entry == [note |-> emitted, time |-> currentTime, duration |-> 0]
        seq == PushCapped(m.melodySequence, entry, melodySequenceCap)
    IN  [mem |-> IF keep THEN [m EXCEPT !.melodySequence = seq]
                 ELSE [m EXCEPT !.melodySequence = seq,
                                !.lastMelodyNote = detectedNote,
                                !.lastMelodyNoteTime = currentTime],
         out |-> Harmony(<<emitted>>, <<>>, rhythmData, "melody")]

\* The branch for two or more notes.
MultiNoteHarmony(m, noteData, rhythmData, currentTime) ==
    LET sorted == SortByFrequency(noteData)
    IN  IF HasChordIntervals(sorted) /\ Len(sorted) >= 3
        THEN LET entry == [notes |-> NotesOf(sorted), time |-> currentTime, duration |-> 0]
             IN  [mem |-> [m EXCEPT !.chordSequence =
                                PushCapped(m.chordSequence, entry, chordSequenceCap)],
                  out |-> Harmony(<<>>, NotesOf(sorted), rhythmData, "chord")]
        ELSE [mem |-> m,
              out |-> Harmony(<<sorted[Len(sorted)].note>>,
                              NotesOf(SubSeq(sorted, 1, Len(sorted) - 1)),
                              rhythmData, "both")]

\* analyzeMelodyHarmony on the memory fields m = [lastMelodyNote,
\* lastMelodyNoteTime, lastChordNotes, lastChordTime, melodySequence,
\* chordSequence]: the fields after the call and the HarmonyAnalysis.
analyzeMelodyHarmony(m, polyphonic, pitches, rhythmData, currentTime) ==
    IF Len(pitches) = 0
    THEN [mem |-> m, out |-> Harmony(<<>>, <<>>, rhythmData, "none")]
    ELSE IF polyphonic
    THEN PolyphonicHarmony(m, NoteData(pitches), rhythmData, currentTime)
    ELSE IF Len(pitches) = 1
    THEN SingleNoteHarmony(m, NoteData(pitches)[1].note, rhythmData, currentTime)
    ELSE MultiNoteHarmony(m, NoteData(pitches), rhythmData, currentTime)

\* ---- isMusicalContent
pitchHistoryCap == 12
harmonicHistoryCap == 6
stabilityHistoryCap == 8

FrequenciesOf(ph) == [i \in 1..Len(ph) |-> ph[i].frequency]
ConfidencesOf(ph) == [i \in 1..Len(ph) |-> ph[i].confidence]

\* measurePitchStability on the history that already holds the current pitch:
\* 1 - min(1, stddev / mean), in 1/ConfScale (the mean in whole Hz, the
\* deviation in tenths of Hz).
StabilityOf(ph) ==
    IF Len(ph) < 3 THEN 0
    ELSE LET fs == FrequenciesOf(ph)
             mean == RoundDiv(SumSeq(fs), Len(fs))
             variance == SumSeq([i \in 1..Len(fs) |-> (fs[i] - mean) * (fs[i] - mean)])
                            \div Len(fs)
             deviation10 == ISqrt(100 * variance)
             ratio == (deviation10 * (ConfScale \div 10)) \div mean
         IN  Max(0, ConfScale - Min(ConfScale, ratio))

\* hasHighVibrato: mean |12 log2(curr / prev)| > 0.5 over the pitch history
hasHighVibrato(ph) ==
    IF Len(ph) < 6 THEN FALSE
    ELSE LET changes == [i \in 1..(Len(ph) - 1) |->
                            Abs(Semitones1024(ph[i + 1].frequency, ph[i].frequency))]
         IN  2 * SumSeq(changes) > 1024 * Len(changes)

\* detectSustainedTone: mean confidence of the last 6 pitches > 0.4
detectSustainedTone(ph) ==
    IF Len(ph) < 4 THEN FALSE
    ELSE LET recent == LastN(ConfidencesOf(ph), 6)
         IN  10 * SumSeq(recent) > 4 * ConfScale * Len(recent)

\* mean of a history > percent / 100
MeanAbove(h, percent) ==
    Len(h) > 0 /\ 100 * SumSeq(h) > percent * ConfScale * Len(h)

\* A vote that leaves the formant filter out
VoteDespiteFormants(conditions, formants, vibrato, voiceBand) ==
    LET passed == Cardinality({i \in 1..Len(conditions) : conditions[i]})
    IN  ~vibrato /\ ~voiceBand /\ passed >= 3

\* hasStrongVoiceFormants: totalFormantEnergy / totalEnergy > 0.4, on the
\* share of the spectrum's energy that lies in the three formant bands
hasStrongVoiceFormants(formantShare) == 10 * formantShare > 4 * ConfScale

\* passedConditions >= 3 with no voice filter triggered
MusicalVote(conditions, formants, vibrato, voiceBand) ==
    LET passed == Cardinality({i \in 1..Len(conditions) : conditions[i]})
    IN  ~formants /\ ~vibrato /\ ~voiceBand /\ passed >= 3

\* isMusicalContent on h = [pitchHistory, harmonicHistory,
\* pitchStabilityHistory]: the histories after the call and the verdict.
\* frame.harmonicRatio, frame.centroid and frame.zcr are the values
\* analyzeHarmonicContent, calculateSpectralCentroid and
\* calculateZeroCrossingRate compute from the buffers, frame.formantShare is
\* the quotient hasStrongVoiceFormants computes from the spectrum.
isMusicalContent(h, frame, pitch) ==
    LET hh == PushCapped(h.harmonicHistory, frame.harmonicRatio, harmonicHistoryCap)
        ph == PushCapped(h.pitchHistory, pitch, pitchHistoryCap)
        sh == PushCapped(h.pitchStabilityHistory, StabilityOf(ph), stabilityHistoryCap)
        isHarmonic == MeanAbove(hh, 18)
        isStable == MeanAbove(sh, 35)
        isInMusicalRange == frame.centroid > 150 /\ frame.centroid < 4186
        isNotSpeechLike == 100 * frame.zcr < 12 * ConfScale
        voiceBand == /\ frame.centroid > 150 /\ frame.centroid < 1200
                     /\ 100 * frame.zcr > 12 * ConfScale
    IN  [pitchHistory |-> ph, harmonicHistory |-> hh, pitchStabilityHistory |-> sh,
         musical |-> MusicalVote(<<isHarmonic, isStable, isInMusicalRange,
                                   isNotSpeechLike, detectSustainedTone(ph)>>,
                                 hasStrongVoiceFormants(frame.formantShare),
                                 hasHighVibrato(ph), voiceBand)]

\* ---- calculateChroma
MagScale == 10000

\* Math.pow(10, level / 20) for a whole number of dB, in 1/MagScale: a factor
\* of 10 for every 20 dB, of 10^(1/20) = 1.12202 for every dB between.
RECURSIVE Magnitude(_)
Magnitude(level) ==
    IF level = 0 THEN MagScale
    ELSE IF level > 0 THEN 10 * Magnitude(level - 20)
    ELSE IF level <= -20 THEN Magnitude(level + 20) \div 10
    ELSE (Magnitude(level + 1) * 100000) \div 112202

\* Math.round(midiNote) % 12
ChromaClass(frequency) == MidiNumber(frequency) % 12

\* The bin passes "frequency < 80 || frequency > 2000" and "magnitude < 0.001".
Counted(bin) ==
    /\ bin.frequency >= 80
    /\ bin.frequency <= 2000
    /\ 1000 * Magnitude(bin.level) >= MagScale

\* The loop over the bins.  spectrum lists the bins that hold energy, from
\* low to high, as [frequency, level]; every other bin is at -Infinity dB.
RECURSIVE Accumulate(_, _)
Accumulate(spectrum, chroma) ==
    IF spectrum = <<>> THEN chroma
    ELSE LET bin == Head(spectrum)
         IN  IF Counted(bin) /\ ChromaClass(bin.frequency) \in 0..11
             THEN Accumulate(Tail(spectrum),
                             [chroma EXCEPT ![ChromaClass(bin.frequency) + 1] =
                                                @ + Magnitude(bin.level)])
             ELSE Accumulate(Tail(spectrum), chroma)

\* The sums left as they are
Unnormalized(chroma) == chroma

\* chroma[i] /= sum when sum > 0, in 1/ChromaScale
Normalize(chroma) ==
    LET sum == SumSeq(chroma)
    IN  IF sum > 0 THEN [i \in 1..12 |-> RoundDiv(chroma[i] * ChromaScale, sum)]
        ELSE chroma

\* The first index (from 1) that holds the greatest entry.
RECURSIVE DominantFrom(_, _, _)
DominantFrom(chroma, i, dominant) ==
    IF i > 12 THEN dominant
    ELSE IF chroma[i] > chroma[dominant] THEN DominantFrom(chroma, i + 1, i)
    ELSE DominantFrom(chroma, i + 1, dominant)

\* calculateChroma: the ChromaData; confidence is in 1/ChromaScale.
calculateChroma(spectrum) ==
    LET chroma == Normalize(Accumulate(spectrum, <<0, 0, 0, 0, 0, 0, 0, 0, 0, 0, 0, 0>>))
        dominant == DominantFrom(chroma, 2, 1)
    IN  [vector |-> chroma, dominant |-> dominant - 1, confidence |-> chroma[dominant]]

(***************************************************************************)
(* Inputs: the frames the analyser hands to processAudio, the frame        *)
(* periods, the chroma vector given to detectKey, the keys a user forces   *)
(***************************************************************************)

ChromaCMajor == <<152, 53, 83, 56, 105, 98, 60, 124, 57, 87, 55, 69>>
ChromaDMajor == <<0, 0, 300, 0, 0, 0, 200, 0, 0, 500, 0, 0>>
ChromaAMinor == <<200, 0, 0, 0, 300, 0, 0, 200, 0, 300, 0, 0>>
ChromaEmpty  == <<0, 0, 0, 0, 0, 0, 0, 0, 0, 0, 0, 0>>
ChromaShort  == <<500, 500>>

\* An all-zero time-domain buffer.
SilentFrame ==
    [silent |-> TRUE, levelDB |-> 0, mono |-> NULL, peaks |-> <<>>,
     harmonicRatio |-> 0, centroid |-> 0, zcr |-> 0, formantShare |-> 2000,
     spectrum |-> <<>>]

\* A sustained A4 with its octave in the spectrum.
ToneFrame ==
    [silent |-> FALSE, levelDB |-> -30, mono |-> Pitch(440, 9000),
     peaks |-> <<Pitch(441, 8000), Pitch(880, 7000)>>,
     harmonicRatio |-> 6000, centroid |-> 800, zcr |-> 200, formantShare |-> 2000,
     spectrum |-> <<Bin(441, -12), Bin(659, -30), Bin(880, -24)>>]

\* The same tone, 20 and 21 dB softer: 10 and 9 dB above the initial noise
\* floor.
QuietToneFrames == {[ToneFrame EXCEPT !.levelDB = level] : level \in {-51, -50}}

\* The same tone, 10 dB softer.
SoftToneFrame == [ToneFrame EXCEPT !.levelDB = -40]

\* A C major triad.
ChordFrame ==
    [silent |-> FALSE, levelDB |-> -30, mono |-> Pitch(262, 8000),
     peaks |-> <<Pitch(330, 7666), Pitch(392, 7000)>>,
     harmonicRatio |-> 4000, centroid |-> 600, zcr |-> 300, formantShare |-> 2000,
     spectrum |-> <<Bin(262, -12), Bin(330, -14), Bin(392, -16), Bin(1500, -30)>>]

\* Speech: a pitch is found, the formant filter rejects the frame.
VoiceFrame ==
    [silent |-> FALSE, levelDB |-> -30, mono |-> Pitch(220, 7000), peaks |-> <<>>,
     harmonicRatio |-> 3000, centroid |-> 700, zcr |-> 1500, formantShare |-> 6000,
     spectrum |-> <<Bin(220, -15), Bin(700, -20), Bin(1100, -22)>>]

\* Broadband noise above the gate: no pitch candidate at all.
NoiseFrame ==
    [silent |-> FALSE, levelDB |-> -30, mono |-> NULL, peaks |-> <<>>,
     harmonicRatio |-> 500, centroid |-> 5000, zcr |-> 4000, formantShare |-> 2000,
     spectrum |-> <<Bin(900, -25), Bin(3000, -25), Bin(5000, -26)>>]

\* Room hum below the gate.
HumFrame == [NoiseFrame EXCEPT !.levelDB = -58]

\* A single C4.
NoteFrame ==
    [silent |-> FALSE, levelDB |-> -30, mono |-> Pitch(262, 8000), peaks |-> <<>>,
     harmonicRatio |-> 5000, centroid |-> 500, zcr |-> 200, formantShare |-> 2000,
     spectrum |-> <<Bin(262, -12), Bin(523, -20), Bin(784, -30)>>]

\* C4 and the G4 a fifth above it.
FifthFrame ==
    [NoteFrame EXCEPT !.peaks = <<Pitch(392, 7000)>>,
                      !.spectrum = <<Bin(262, -12), Bin(392, -15)>>]

\* D4 strongest, with E4 and C4 around it: whole tones between neighbours.
ClusterFrame ==
    [NoteFrame EXCEPT !.mono = Pitch(294, 8000),
                      !.peaks = <<Pitch(330, 7666), Pitch(262, 7000)>>,
                      !.spectrum = <<Bin(262, -18), Bin(294, -12), Bin(330, -15)>>]

\* An A3 with its octaves A4 and A5.
OctaveFrame ==
    [NoteFrame EXCEPT !.mono = Pitch(220, 8000),
                      !.peaks = <<Pitch(441, 7666), Pitch(880, 7000)>>,
                      !.spectrum = <<Bin(220, -12), Bin(441, -15), Bin(880, -18)>>]

\* A single C#4.
SharpNoteFrame ==
    [NoteFrame EXCEPT !.mono = Pitch(277, 8000),
                      !.spectrum = <<Bin(277, -12), Bin(554, -20), Bin(831, -30)>>]

\* A C4 whose spectrum has its partials at any of four levels, next to
\* energy below and above the range calculateChroma looks at.
ChromaLevels == {-70, -60, -26, -6}

SpectrumFrames ==
    {[NoteFrame EXCEPT !.spectrum = <<Bin(50, 0), Bin(262, a), Bin(330, c), Bin(392, b),
                                      Bin(523, c), Bin(2500, 0)>>] :
        a, b, c \in ChromaLevels}

\* A comb of spectral lines: every second bin from first + 1 on carries one
\* of the levels of tops, the bins between them lie at the level valley.
Comb(first, valley, tops) ==
    FrequencyData(first, [k \in 1..(2 * Len(tops) + 1) |->
                             IF k % 2 = 1 THEN valley ELSE tops[k \div 2]])

BinsOf(data) ==
    [k \in 1..Len(data.levels) |-> Bin(BinFrequency(data.first + k - 1), data.levels[k])]

CombLevels == {-45, -29, -20}
CombValleys == {-50, -30}
CombFirstBins == {6, 183}
CombLines == {3, 10}
CombEstimates == {NULL, Pitch(100, 7500), Pitch(440, 9000)}

CombSpectra ==
    {Comb(first, valley, [i \in 1..n |-> IF i % 2 = 1 THEN a ELSE b]) :
        first \in CombFirstBins, valley \in CombValleys, a \in CombLevels,
        b \in CombLevels, n \in CombLines}

\* A note with a comb for its spectrum, with or without an autocorrelation
\* estimate, the one at 100 Hz within 10 Hz of the line in bin 9.
PeakFrames ==
    {[NoteFrame EXCEPT !.mono = mono,
                       !.peaks = detectSpectralPeaks(data),
                       !.spectrum = BinsOf(data)] :
        mono \in CombEstimates, data \in CombSpectra}

\* A C4 or a D4, confidently or faintly estimated, steady from frame to
\* frame or not.
WarmUpFrames ==
    {[NoteFrame EXCEPT !.mono = mono] :
        mono \in {Pitch(262, 8000), Pitch(294, 8000), Pitch(262, 3000)}}

\* The same notes with every combination of readings on either side of the
\* classifier's thresholds (a formant share of exactly 40% among them).
ClassifierFrames ==
    {[frame EXCEPT !.harmonicRatio = h, !.centroid = c, !.zcr = z, !.formantShare = s] :
        frame \in WarmUpFrames, h \in {1000, 5000}, c \in {100, 800, 3000},
        z \in {500, 2000}, s \in {2000, 4000, 6000}}

Frames == {SilentFrame, NoiseFrame, VoiceFrame, ToneFrame}
RhythmFrames == {SoftToneFrame, ToneFrame}
ConstantFrames == {SilentFrame, HumFrame} \cup QuietToneFrames
GateFrames == {SilentFrame, HumFrame, SoftToneFrame, ToneFrame}
HarmonyFrames == {ChordFrame, FifthFrame, ClusterFrame, VoiceFrame, NoteFrame}
OctaveFrames == {OctaveFrame, ToneFrame, NoteFrame}
SteadyFrames == {NoteFrame, SharpNoteFrame}

\* The chroma vectors calculateChroma makes of the frames.
FrameChromas ==
    {calculateChroma(f.spectrum).vector :
        f \in Frames \cup RhythmFrames \cup HarmonyFrames \cup SteadyFrames
                 \cup SpectrumFrames \cup PeakFrames \cup OctaveFrames}

\* The frame period of a 60 Hz display, and slower ones (a throttled tab).
FrameMs == 16
RhythmPeriods == {125, 175, 250, 500}
HarmonyPeriods == {FrameMs, 100, 200}
BeatPeriods == {100, 200}
PolyPeriods == {25, 50}

\* Values given to setGateThreshold, in dB.
GateLevels == {-70, -30, -10}

\* Values given to setNoiseGateThreshold, in dB.
GateThresholds == {-65, -45, -25}

KeyChromas == {ChromaCMajor, ChromaDMajor, ChromaAMinor, ChromaEmpty, ChromaShort}

\* The mode's profile divided by its sum, with the tonic at pitch class root.
ProfileChroma(root, mode) ==
    LET profile == KEY_PROFILES[mode]
    IN  [j \in 1..12 |->
            RoundDiv(profile[((j - 1 - root + 12) % 12) + 1] * ChromaScale, SumSeq(profile))]

ProfileChromas == {ProfileChroma(KeyCandidates[k].root, KeyCandidates[k].mode) : k \in 1..24}

\* Twelve equal entries: 1/12 each, and 0.001 each (sum 0.012).
ChromaFlat == [j \in 1..12 |-> 83]
ChromaFlatFaint == [j \in 1..12 |-> 1]
\* One faint pitch class: sum 0.009.
ChromaFaint == <<0, 0, 9, 0, 0, 0, 0, 0, 0, 0, 0, 0>>
\* Thirteen entries.
ChromaLong == <<100, 0, 100, 0, 100, 100, 0, 100, 0, 100, 0, 100, 300>>

DegenerateChromas ==
    {ChromaFlat, ChromaFlatFaint, ChromaFaint, ChromaEmpty, ChromaShort, ChromaLong}

\* The chroma vectors given to detectKey when it is called directly.
DetectorInputs == ProfileChromas \cup DegenerateChromas

\* detectKey's unsmoothed result for each chroma vector the model feeds it
RawResultOf == [c \in KeyChromas \cup DetectorInputs \cup FrameChromas |-> RawDetect(c)]

\* detectKey: [history, result, raw] after the call on the given history.
detectKey(history, chroma) ==
    LET raw == RawResultOf[chroma]
    IN  IF raw = NULL
        THEN [history |-> history, result |-> NULL, raw |-> NULL]
        ELSE LET h2 == addToHistory(history, raw)
             IN  [history |-> h2, result |-> getSmoothedResult(h2), raw |-> raw]

OverrideChoices == {<<"C", "major">>, <<"A", "minor">>}

\* calculateRMS and the conversion to dB: -90 for an all-zero buffer
AmplitudeDB(frame) == IF frame.silent THEN -90 ELSE frame.levelDB

MaxTicks == 2
MaxRhythmTicks == 12
MaxHarmonyTicks == 4
MaxSteadyTicks == 8
MaxInputCalls == 2
MaxChromaTicks == 2
MaxGateTicks == 3
MaxPeakTicks == 2
MaxLongTicks == 104
MaxConstantTicks == 240
MaxMusicalTicks == 6
MusicalWarmUpTicks == 5
WarmUpTicks == 3
MaxInits == 2
MaxCalls == 7
StartTime == 1000

(***************************************************************************)
(* Initial state: the fields as the constructors and useState leave them   *)
(***************************************************************************)
NoOverride == [isActive |-> FALSE, selectedKey |-> "", selectedMode |-> "major"]

\* What the last operation did: its name, whether it called detectKey or
\* reset(), whether it ran the frame pipeline and, if so, how many pitch
\* candidates the frame had (pitches, as detectMultiplePitches ranked them)
\* and what isMusicalContent and calculateChroma returned; for a direct
\* detectKey call, its argument.
Op(name, detectCalled, reset, pipeline) ==
    [name |-> name, detectCalled |-> detectCalled, reset |-> reset, pipeline |-> pipeline,
     candidates |-> 0, pitches |-> <<>>, musical |-> FALSE, chroma |-> NoChroma,
     chromaData |-> NULL, merged |-> FALSE, frame |-> NULL]

TickOp(name, detectCalled, pitches, musical, chromaData) ==
    [name |-> name, detectCalled |-> detectCalled, reset |-> FALSE, pipeline |-> TRUE,
     candidates |-> Len(pitches), pitches |-> pitches, musical |-> musical,
     chroma |-> NoChroma, chromaData |-> chromaData,
     merged |-> FALSE, frame |-> NULL]

\* The operation read the frame from the analyser and, with the gate open,
\* called detectMultiplePitches on it.
Heard(op, frame, gateOpen) == [op EXCEPT !.merged = gateOpen, !.frame = frame]

NoOp == Op("Init", FALSE, FALSE, FALSE)

InitialNoiseFloor == -60 * NfScale
InitialThresholdMin == -65
InitialGateThreshold == -35

\* The state once App has rendered: the objects its useState initialisers build.
Constructed ==
    /\ isRecording = FALSE
    /\ isInitialized = FALSE
    /\ keyOverride = NoOverride
    /\ detectedKey = NULL
    /\ mounted = FALSE
    /\ keyHistory = <<>>
    /\ audioContext = "none"
    /\ analyser = FALSE
    /\ mediaStream = 0
    /\ isProcessing = FALSE
    /\ animationFrame = 0
    /\ noiseFloor = InitialNoiseFloor
    /\ thresholdMin = InitialThresholdMin
    /\ gateThreshold = InitialGateThreshold
    /\ currentState = "idle"
    /\ pitchHistory = <<>>
    /\ harmonicHistory = <<>>
    /\ pitchStabilityHistory = <<>>
    /\ amplitudeHistory = <<>>
    /\ beatHistory = <<>>
    /\ lastBeatTime = 0
    /\ tempoHistory = <<>>
    /\ melodySequence = <<>>
    /\ chordSequence = <<>>
    /\ lastMelodyNote = NoNote
    /\ lastMelodyNoteTime = 0
    /\ lastChordNotes = <<>>
    /\ lastChordTime = 0
    /\ polyphonicMode = FALSE
    /\ now = StartTime
    /\ frames = {}
    /\ pendingInit = {}
    /\ liveStreams = {}
    /\ requests = 0
    /\ delivered = NULL
    /\ rhythmOut = NULL
    /\ keyResult = NULL
    /\ rawResult = NULL
    /\ lastOp = NoOp
    /\ accepted = <<>>
    /\ beatsSeen = 0
    /\ uniformSpacing = -1
    /\ lastCleared = -1
    /\ ticks = 0
    /\ calls = 0

Init == Constructed /\ period = FrameMs

(***************************************************************************)
(* The frame pipeline (the body of processAudio) and the App's callback    *)
(***************************************************************************)
\* The state, were the classifier not asked
StateWithoutClassifier(gateOpen, candidates, musical) ==
    IF ~gateOpen THEN "idle"
    ELSE IF candidates > 0 THEN "musical_input"
    ELSE "noise_detected"

\* The state processAudio reports.
ResultState(gateOpen, candidates, musical) ==
    IF ~gateOpen THEN "idle"
    ELSE IF candidates > 0 /\ musical THEN "musical_input"
    ELSE "noise_detected"

\* key.confidence > 0.01
KeyShown(key) == key # NULL /\ 100 * key.confidence > ConfScale

\* handleAudioData as created in a render where keyOverride.isActive was
\* cb.overrideActive: the part that feeds the KeyDetector.  (The setters that
\* only mirror the data for display are left out.)
DetectCalled(cb, data) == data.chroma # NoChroma /\ ~cb.overrideActive

HandleAudioData(cb, data) ==
    /\ IF DetectCalled(cb, data)
       THEN \E d \in {detectKey(keyHistory, data.chroma)} :
                /\ keyHistory' = d.history
                /\ keyResult' = d.result
                /\ rawResult' = IF d.raw # NULL THEN d.raw ELSE rawResult
                /\ accepted' = IF d.raw # NULL THEN Append(accepted, d.raw) ELSE accepted
                /\ detectedKey' = IF KeyShown(d.result) THEN d.result ELSE detectedKey
       ELSE UNCHANGED <<keyHistory, keyResult, rawResult, accepted, detectedKey>>
    /\ UNCHANGED lastCleared

\* The spacing shared by all beats since cleanup(), after a beat at time t.
SpacingAfterBeat(t) ==
    IF beatsSeen = 0 \/ beatHistory = <<>> THEN -1
    ELSE LET d == t - beatHistory[Len(beatHistory)]
         IN  IF uniformSpacing = -1 \/ uniformSpacing = d THEN d ELSE 0

\* The body of processAudio past its guard, at time t, with the callback cb,
\* run by the operation called name.
Pipeline(frame, t, cb, name) ==
    \E amplitudeDB \in {AmplitudeDB(frame)} :
    \E floor \in {updateNoiseFloor(noiseFloor, amplitudeDB)} :
    \E gateOpen \in {applyNoiseGate(floor, thresholdMin, amplitudeDB)} :
    \E pitches \in {IF gateOpen THEN detectMultiplePitches(frame) ELSE <<>>} :
        /\ noiseFloor' = floor
        /\ IF Len(pitches) > 0
           THEN \E r \in {analyzeRhythm([amplitudeHistory |-> amplitudeHistory,
                                         beatHistory |-> beatHistory,
                                         lastBeatTime |-> lastBeatTime,
                                         tempoHistory |-> tempoHistory], amplitudeDB, t)} :
                \E m \in {analyzeMelodyHarmony([lastMelodyNote |-> lastMelodyNote,
                                                lastMelodyNoteTime |-> lastMelodyNoteTime,
                                                lastChordNotes |-> lastChordNotes,
                                                lastChordTime |-> lastChordTime,
                                                melodySequence |-> melodySequence,
                                                chordSequence |-> chordSequence],
                                               polyphonicMode, pitches, r.data, t)} :
                \E c \in {isMusicalContent([pitchHistory |-> pitchHistory,
                                            harmonicHistory |-> harmonicHistory,
                                            pitchStabilityHistory |-> pitchStabilityHistory],
                                           frame, pitches[1])} :
                \E state \in {ResultState(gateOpen, Len(pitches), c.musical)} :
                \E chroma \in {IF c.musical THEN calculateChroma(frame.spectrum) ELSE NULL} :
                    /\ amplitudeHistory' = r.amplitudeHistory
                    /\ beatHistory' = r.beatHistory
                    /\ lastBeatTime' = r.lastBeatTime
                    /\ tempoHistory' = r.tempoHistory
                    /\ rhythmOut' = r.data
                    /\ beatsSeen' = IF r.beat THEN beatsSeen + 1 ELSE beatsSeen
                    /\ uniformSpacing' = IF r.beat THEN SpacingAfterBeat(t)
                                         ELSE uniformSpacing
                    /\ lastMelodyNote' = m.mem.lastMelodyNote
                    /\ lastMelodyNoteTime' = m.mem.lastMelodyNoteTime
                    /\ lastChordNotes' = m.mem.lastChordNotes
                    /\ lastChordTime' = m.mem.lastChordTime
                    /\ melodySequence' = m.mem.melodySequence
                    /\ chordSequence' = m.mem.chordSequence
                    /\ pitchHistory' = c.pitchHistory
                    /\ harmonicHistory' = c.harmonicHistory
                    /\ pitchStabilityHistory' = c.pitchStabilityHistory
                    /\ currentState' = state
                    /\ delivered' =
                           [state |-> state,
                            pitch |-> pitches[1],
                            chroma |-> IF chroma # NULL THEN chroma.vector
                                       ELSE NoChroma,
                            amplitude |-> amplitudeDB,
                            noiseGateOpen |-> gateOpen,
                            harmonyAnalysis |-> m.out]
                    /\ lastOp' = Heard(TickOp(name, DetectCalled(cb, delivered'),
                                              pitches, c.musical, chroma),
                                       frame, gateOpen)
           ELSE /\ UNCHANGED <<histVars, rhythmVars, lastMelodyNote, lastMelodyNoteTime,
                               lastChordNotes, lastChordTime, melodySequence,
                               chordSequence>>
                /\ currentState' = ResultState(gateOpen, 0, FALSE)
                /\ delivered' =
                       [state |-> ResultState(gateOpen, 0, FALSE),
                        pitch |-> NULL,
                        chroma |-> NoChroma,
                        amplitude |-> amplitudeDB,
                        noiseGateOpen |-> gateOpen,
                        harmonyAnalysis |-> NULL]
                /\ lastOp' = Heard(TickOp(name, DetectCalled(cb, delivered'),
                                          <<>>, FALSE, NULL),
                                   frame, gateOpen)
        /\ HandleAudioData(cb, delivered')
        /\ ticks' = ticks + 1
        /\ UNCHANGED <<thresholdMin, gateThreshold, polyphonicMode>>

(***************************************************************************)
(* SmartAudioProcessor: cleanup, start, the frame loop, initialize         *)
(***************************************************************************)
\* requestAnimationFrame returns an id no pending or remembered frame has.
NewFrameId(pending, remembered) ==
    CHOOSE id \in 1..(Cardinality(pending) + 2) :
        /\ id # remembered
        /\ \A f \in pending : f.id # id
        /\ \A other \in 1..(id - 1) : other = remembered \/ \E f \in pending : f.id = other

\* cancelAnimationFrame(animationFrame), when animationFrame is set
AfterCancel(pending, remembered) == {f \in pending : f.id # remembered}

\* cleanup(): the fields it assigns.  It leaves noiseFloor, lastBeatTime and
\* the melody and chord memories as they are.
Cleanup ==
    /\ isProcessing' = FALSE
    /\ frames' = AfterCancel(frames, animationFrame)
    /\ animationFrame' = 0
    /\ liveStreams' = liveStreams \ {mediaStream}
    /\ mediaStream' = 0
    /\ audioContext' = "none"
    /\ analyser' = FALSE
    /\ pitchHistory' = <<>>
    /\ harmonicHistory' = <<>>
    /\ pitchStabilityHistory' = <<>>
    /\ amplitudeHistory' = <<>>
    /\ beatHistory' = <<>>
    /\ tempoHistory' = <<>>
    /\ melodySequence' = <<>>
    /\ chordSequence' = <<>>
    /\ currentState' = "idle"
    /\ beatsSeen' = 0
    /\ uniformSpacing' = -1
    /\ UNCHANGED <<noiseFloor, thresholdMin, gateThreshold, lastBeatTime, rhythmOut,
                   lastMelodyNote, lastMelodyNoteTime, lastChordNotes, lastChordTime,
                   polyphonicMode, delivered>>

\* start(onAudioData) can run: an analyser and an open context are held.
CanStart == analyser /\ audioContext # "none"

\* start(cb) when CanStart: the first processAudio runs inside the call.
StartLoop(frame, cb, name) ==
    LET id == NewFrameId(frames, animationFrame)
    IN  /\ isProcessing' = TRUE
        /\ Pipeline(frame, now, cb, name)
        /\ animationFrame' = id
        /\ frames' = frames \cup {[id |-> id, cb |-> cb]}

\* A pending animation frame fires: processAudio of that loop.
Frame(f, frame, dt) ==
    /\ f \in frames
    /\ now' = now + dt
    /\ IF isProcessing /\ analyser
       THEN LET rest == frames \ {f}
                id == NewFrameId(rest, animationFrame)
            IN  /\ Pipeline(frame, now + dt, f.cb, "Frame")
                /\ animationFrame' = id
                /\ frames' = rest \cup {[id |-> id, cb |-> f.cb]}
                /\ UNCHANGED isProcessing
       ELSE /\ frames' = frames \ {f}
            /\ lastOp' = Op("Frame", FALSE, FALSE, FALSE)
            /\ UNCHANGED <<isProcessing, animationFrame, gateVars, histVars, rhythmVars,
                           harmonyVars, obsVars, keyVars, detectedKey, ticks>>
    /\ UNCHANGED <<isRecording, isInitialized, keyOverride, mounted, resVars, calls, period>>

\* initialize() up to its await: cleanup(), then getUserMedia is pending.
\* caller and cb are what the continuation of the caller needs.
RequestMicrophone(caller, cb) ==
    /\ requests < MaxInits
    /\ Cleanup
    /\ requests' = requests + 1
    /\ pendingInit' = pendingInit \cup {[stream |-> requests + 1, caller |-> caller, cb |-> cb]}

\* initialize() returns at once when a context and an analyser are held.
AlreadyInitialized == audioContext # "none" /\ analyser

(***************************************************************************)
(* App: the mount effect, toggleRecording, handleKeyOverride               *)
(***************************************************************************)
\* The handleAudioData of the current render.
CurrentCallback == [overrideActive |-> keyOverride.isActive]

NoCallback == [overrideActive |-> FALSE]

\* useEffect: initAudio() up to the await inside initialize().
InitAudio ==
    /\ ~mounted
    /\ mounted' = TRUE
    /\ RequestMicrophone("mount", NoCallback)
    /\ lastOp' = Op("InitAudio", FALSE, FALSE, FALSE)
    /\ UNCHANGED <<isRecording, isInitialized, keyOverride, detectedKey, keyVars,
                   now, ticks, calls, period>>

\* getUserMedia resolves: the rest of initialize().
Granted(p) ==
    /\ p \in pendingInit
    /\ pendingInit' = pendingInit \ {p}
    /\ mediaStream' = p.stream
    /\ liveStreams' = liveStreams \cup {p.stream}
    /\ audioContext' = "running"
    /\ analyser' = TRUE
    /\ UNCHANGED requests

\* ... and initAudio continues: setIsInitialized(true).
GrantMount(p) ==
    /\ p.caller = "mount"
    /\ Granted(p)
    /\ isInitialized' = TRUE
    /\ lastOp' = Op("GrantMount", FALSE, FALSE, FALSE)
    /\ UNCHANGED <<isRecording, keyOverride, detectedKey, mounted, keyVars, loopVars,
                   gateVars, histVars, rhythmVars, harmonyVars, obsVars, now, ticks, calls, period>>

\* ... and toggleRecording continues: setIsInitialized(true), start(), setIsRecording(true).
GrantToggle(p, frame) ==
    /\ p.caller = "toggle"
    /\ Granted(p)
    /\ isInitialized' = TRUE
    /\ StartLoop(frame, p.cb, "GrantToggle")
    /\ isRecording' = TRUE
    /\ UNCHANGED <<keyOverride, mounted, now, calls, period>>

\* getUserMedia rejects: the catch of initialize() runs cleanup() and returns
\* false; either caller then does setIsInitialized(false).
DenyMicrophone(p) ==
    /\ p \in pendingInit
    /\ pendingInit' = pendingInit \ {p}
    /\ Cleanup
    /\ isInitialized' = FALSE
    /\ lastOp' = Op("DenyMicrophone", FALSE, FALSE, FALSE)
    /\ UNCHANGED <<isRecording, keyOverride, detectedKey, mounted, keyVars, requests,
                   now, ticks, calls, period>>

\* toggleRecording while recording: stop() and the resets of the display state.
ToggleStop ==
    /\ isRecording
    /\ Cleanup
    /\ isRecording' = FALSE
    /\ detectedKey' = NULL
    /\ lastOp' = Op("ToggleStop", FALSE, FALSE, FALSE)
    /\ UNCHANGED <<isInitialized, keyOverride, mounted, keyVars, requests, pendingInit,
                   now, ticks, calls, period>>

\* toggleRecording while not initialized: initialize() up to its await.
\* (isInitialized is false only while no analyser is held, so the early
\* return of initialize() is not taken here.)
ToggleInit ==
    /\ ~isRecording
    /\ ~isInitialized
    /\ ~AlreadyInitialized
    /\ RequestMicrophone("toggle", CurrentCallback)
    /\ lastOp' = Op("ToggleInit", FALSE, FALSE, FALSE)
    /\ UNCHANGED <<isRecording, isInitialized, keyOverride, detectedKey, mounted, keyVars,
                   now, ticks, calls, period>>

\* toggleRecording while initialized and not recording: start(handleAudioData),
\* which only logs an error when no analyser is held, then setIsRecording(true).
ToggleStart(frame) ==
    /\ ~isRecording
    /\ isInitialized
    /\ IF CanStart
       THEN StartLoop(frame, CurrentCallback, "ToggleStart")
       ELSE /\ lastOp' = Op("ToggleStart", FALSE, FALSE, FALSE)
            /\ UNCHANGED <<loopVars, gateVars, histVars, rhythmVars, harmonyVars, obsVars,
                           keyVars, detectedKey, ticks>>
    /\ isRecording' = TRUE
    /\ UNCHANGED <<isInitialized, keyOverride, mounted, resVars, now, calls, period>>

\* handleKeyOverride(key, mode)
HandleKeyOverride(key, mode) ==
    LET release == /\ keyOverride.isActive
                   /\ keyOverride.selectedKey = key
                   /\ keyOverride.selectedMode = mode
    IN  /\ IF release
           THEN /\ keyOverride' = NoOverride
                /\ keyHistory' = resetHistory(keyHistory)
                /\ accepted' = <<>>
                /\ lastCleared' = Len(keyHistory)
           ELSE /\ keyOverride' = [isActive |-> TRUE, selectedKey |-> key,
                                   selectedMode |-> mode]
                /\ UNCHANGED <<keyHistory, accepted, lastCleared>>
        /\ lastOp' = Op("HandleKeyOverride", FALSE, release, FALSE)
        /\ UNCHANGED <<isRecording, isInitialized, detectedKey, mounted, keyResult,
                       rawResult, resVars, loopVars, gateVars, histVars, rhythmVars,
                       harmonyVars, obsVars, now, ticks, calls, period>>

\* setNoiseGateThreshold(threshold)
SetNoiseGateThreshold(threshold) ==
    /\ thresholdMin' = threshold
    /\ lastOp' = Op("SetNoiseGateThreshold", FALSE, FALSE, FALSE)
    /\ UNCHANGED <<appVars, keyVars, resVars, loopVars, noiseFloor, gateThreshold,
                   histVars, rhythmVars, harmonyVars, obsVars, now, ticks, calls, period>>

\* setGateThreshold(threshold)
thresholdMax == -20

SetGateThreshold(threshold) ==
    /\ gateThreshold' = Max(thresholdMin, Min(thresholdMax, threshold))
    /\ lastOp' = Op("SetGateThreshold", FALSE, FALSE, FALSE)
    /\ UNCHANGED <<appVars, keyVars, resVars, loopVars, noiseFloor, thresholdMin,
                   histVars, rhythmVars, harmonyVars, obsVars, now, ticks, calls, period>>

\* setPolyphonicMode(enabled)
SetPolyphonicMode(enabled) ==
    /\ polyphonicMode' = enabled
    /\ lastOp' = Op("SetPolyphonicMode", FALSE, FALSE, FALSE)
    /\ UNCHANGED <<appVars, keyVars, resVars, loopVars, noiseFloor, thresholdMin,
                   gateThreshold, histVars, rhythmVars, lastMelodyNote, lastMelodyNoteTime,
                   lastChordNotes, lastChordTime, melodySequence, chordSequence, obsVars,
                   now, ticks, calls, period>>

(***************************************************************************)
(* KeyDetector called directly                                             *)
(***************************************************************************)
DetectKeyCall(chroma) ==
    LET d == detectKey(keyHistory, chroma)
    IN  /\ calls < MaxCalls
        /\ calls' = calls + 1
        /\ keyHistory' = d.history
        /\ keyResult' = d.result
        /\ rawResult' = IF d.raw # NULL THEN d.raw ELSE rawResult
        /\ accepted' = IF d.raw # NULL THEN Append(accepted, d.raw) ELSE accepted
        /\ lastOp' = [Op("DetectKey", TRUE, FALSE, FALSE) EXCEPT !.chroma = chroma]
        /\ UNCHANGED <<appVars, lastCleared, resVars, loopVars, gateVars, histVars,
                       rhythmVars, harmonyVars, obsVars, now, ticks, period>>

ResetCall ==
    /\ keyHistory' = resetHistory(keyHistory)
    /\ accepted' = <<>>
    /\ lastCleared' = Len(keyHistory)
    /\ lastOp' = Op("Reset", FALSE, TRUE, FALSE)
    /\ UNCHANGED <<appVars, keyResult, rawResult, resVars, loopVars, gateVars, histVars,
                   rhythmVars, harmonyVars, obsVars, now, ticks, calls, period>>

(***************************************************************************)
(* Specifications                                                          *)
(***************************************************************************)
\* The App with its processor and key detector, MaxTicks frames long.  The
\* user acts once the component is mounted: React runs the mount effect
\* before it handles a click.
Next ==
    \/ InitAudio
    \/ \E p \in pendingInit : GrantMount(p)
    \/ \E p \in pendingInit, frame \in Frames : ticks < MaxTicks /\ GrantToggle(p, frame)
    \/ \E p \in pendingInit : DenyMicrophone(p)
    \/ mounted /\ ToggleStop
    \/ mounted /\ ToggleInit
    \/ \E frame \in Frames : mounted /\ ticks < MaxTicks /\ ToggleStart(frame)
    \/ \E c \in OverrideChoices : mounted /\ HandleKeyOverride(c[1], c[2])
    \/ \E f \in frames, frame \in Frames : ticks < MaxTicks /\ Frame(f, frame, period)

Spec == Init /\ [][Next]_vars

\* The KeyDetector under any sequence of detectKey and reset calls, and the
\* App's key override.
NextKey ==
    \/ \E chroma \in KeyChromas : DetectKeyCall(chroma)
    \/ ResetCall
    \/ \E c \in OverrideChoices : HandleKeyOverride(c[1], c[2])

SpecKey == Init /\ [][NextKey]_vars

\* A KeyDetector given key profiles and degenerate vectors, MaxInputCalls
\* calls long.
NextInputs ==
    \/ \E chroma \in DetectorInputs : calls < MaxInputCalls /\ DetectKeyCall(chroma)
    \/ ResetCall

SpecInputs == Init /\ [][NextInputs]_vars

\* The processor fed a C4 with any of the spectra, MaxChromaTicks frames long.
NextChroma ==
    \/ InitAudio
    \/ \E p \in pendingInit : GrantMount(p)
    \/ \E frame \in SpectrumFrames : ticks < MaxChromaTicks /\ ToggleStart(frame)
    \/ \E f \in frames, frame \in SpectrumFrames :
           ticks < MaxChromaTicks /\ Frame(f, frame, period)

SpecChroma == Init /\ [][NextChroma]_vars

\* The processor fed a single note and then combs of spectral lines,
\* MaxPeakTicks frames long.
NextPeaks ==
    \/ InitAudio
    \/ \E p \in pendingInit : GrantMount(p)
    \/ ticks < MaxPeakTicks /\ ToggleStart(NoteFrame)
    \/ \E f \in frames, frame \in PeakFrames :
           ticks < MaxPeakTicks /\ Frame(f, frame, period)

SpecPeaks == Init /\ [][NextPeaks]_vars

\* The processor fed single notes, MaxMusicalTicks frames long: the first
\* MusicalWarmUpTicks frames with unsuspicious readings, then with any.
HeardNow(frame) ==
    IF ticks < MusicalWarmUpTicks THEN frame \in WarmUpFrames
    ELSE frame \in ClassifierFrames

NextMusical ==
    \/ InitAudio
    \/ \E p \in pendingInit : GrantMount(p)
    \/ \E frame \in WarmUpFrames : ticks < MaxMusicalTicks /\ ToggleStart(frame)
    \/ \E f \in frames, frame \in WarmUpFrames \cup ClassifierFrames :
           ticks < MaxMusicalTicks /\ HeardNow(frame) /\ Frame(f, frame, period)

SpecMusical == Init /\ [][NextMusical]_vars

\* The processor fed silence, hum and tones at two levels, MaxGateTicks frames
\* long, while the lower bound of the gate and the gate threshold are moved.
NextGate ==
    \/ InitAudio
    \/ \E p \in pendingInit : GrantMount(p)
    \/ \E threshold \in GateThresholds : SetNoiseGateThreshold(threshold)
    \/ \E threshold \in GateLevels : SetGateThreshold(threshold)
    \/ \E frame \in GateFrames : ticks < MaxGateTicks /\ ToggleStart(frame)
    \/ \E f \in frames, frame \in GateFrames :
           ticks < MaxGateTicks /\ Frame(f, frame, period)

SpecGate == Init /\ [][NextGate]_vars

\* The processor fed the same frame on every tick, MaxConstantTicks frames
\* long.
SameFrame(frame) == ticks = 0 \/ lastOp.frame = frame

ConstantTick ==
    \E f \in frames, frame \in ConstantFrames :
        ticks < MaxConstantTicks /\ SameFrame(frame) /\ Frame(f, frame, period)

NextConstant ==
    \/ InitAudio
    \/ \E p \in pendingInit : GrantMount(p)
    \/ \E frame \in ConstantFrames : ticks < MaxConstantTicks /\ ToggleStart(frame)
    \/ ConstantTick

\* The browser calls every frame callback it was asked for: while a frame is
\* pending, a step that processes a frame is due.
FrameDue == frames # {} /\ ticks < MaxConstantTicks /\ ticks' = ticks + 1

SpecConstant == Init /\ [][NextConstant]_vars /\ WF_ticks(FrameDue)

\* The processor fed a tone that swells and fades, at one of several frame
\* periods, MaxRhythmTicks frames long, recording started and stopped at will.
InitRhythm == Constructed /\ period \in RhythmPeriods

NextRhythm ==
    \/ InitAudio
    \/ \E p \in pendingInit : GrantMount(p)
    \/ ToggleStop
    \/ \E frame \in RhythmFrames : ticks < MaxRhythmTicks /\ ToggleStart(frame)
    \/ \E f \in frames, frame \in RhythmFrames :
           ticks < MaxRhythmTicks /\ Frame(f, frame, period)

SpecRhythm == InitRhythm /\ [][NextRhythm]_vars

\* A long recording: a tone that is soft and loud in turn, MaxLongTicks
\* frames long.
PatternFrame == IF ticks % 2 = 0 THEN SoftToneFrame ELSE ToneFrame

NextLong ==
    \/ InitAudio
    \/ \E p \in pendingInit : GrantMount(p)
    \/ ticks < MaxLongTicks /\ ToggleStart(PatternFrame)
    \/ \E f \in frames : ticks < MaxLongTicks /\ Frame(f, PatternFrame, period)

SpecLong == InitRhythm /\ [][NextLong]_vars

\* The same, at frame periods that divide 200 ms.
InitBeat == Constructed /\ period \in BeatPeriods

SpecBeat == InitBeat /\ [][NextRhythm]_vars

\* The processor fed single notes, intervals and chords at one of several
\* frame periods, MaxHarmonyTicks frames long, in either harmony mode.
InitHarmony == Constructed /\ period \in HarmonyPeriods

NextHarmony ==
    \/ InitAudio
    \/ \E p \in pendingInit : GrantMount(p)
    \/ ToggleStop
    \/ \E enabled \in BOOLEAN : SetPolyphonicMode(enabled)
    \/ \E frame \in HarmonyFrames : ticks < MaxHarmonyTicks /\ ToggleStart(frame)
    \/ \E f \in frames, frame \in HarmonyFrames :
           ticks < MaxHarmonyTicks /\ Frame(f, frame, period)

SpecHarmony == InitHarmony /\ [][NextHarmony]_vars

\* The processor fed notes with and without their octaves, in either mode.
NextOctave ==
    \/ InitAudio
    \/ \E p \in pendingInit : GrantMount(p)
    \/ \E enabled \in BOOLEAN : SetPolyphonicMode(enabled)
    \/ \E frame \in OctaveFrames : ticks < MaxHarmonyTicks /\ ToggleStart(frame)
    \/ \E f \in frames, frame \in OctaveFrames :
           ticks < MaxHarmonyTicks /\ Frame(f, frame, period)

SpecOctave == Init /\ [][NextOctave]_vars

\* The same, at frame periods that divide the 50 ms of the chord memory.
InitPoly == Constructed /\ period \in PolyPeriods

SpecPoly == InitPoly /\ [][NextHarmony]_vars

\* The analyser hands over the frame it handed over on the tick before
\* (pitchHistory holds the primary pitch of every tick since cleanup()).
SameAsLastTick(frame) ==
    pitchHistory # <<>> /\ pitchHistory[Len(pitchHistory)] = frame.mono

\* The processor fed single notes: any of them for the first WarmUpTicks
\* frames, then one note unchanged from tick to tick.
InitSteady == Constructed /\ period \in HarmonyPeriods

NextSteady ==
    \/ InitAudio
    \/ \E p \in pendingInit : GrantMount(p)
    \/ \E frame \in SteadyFrames : ticks < MaxSteadyTicks /\ ToggleStart(frame)
    \/ \E f \in frames, frame \in SteadyFrames :
           /\ ticks < MaxSteadyTicks
           /\ ticks < WarmUpTicks \/ SameAsLastTick(frame)
           /\ Frame(f, frame, period)

SpecSteady == InitSteady /\ [][NextSteady]_vars

(***************************************************************************)
(* KeyDetector: history and smoothing (SpecKey)                            *)
(***************************************************************************)
\* The step just taken was done by the operation called name.
StepOf(name) == lastOp'.name = name

\* C2: handleKeyOverride calls reset() exactly when it releases the active
\* override, reset() leaves the key history empty whatever it held, and the
\* first detection accepted after a reset is returned unsmoothed.
C2_ResetThenFastStart ==
    /\ [][StepOf("HandleKeyOverride") =>
            IF keyOverride.isActive /\ ~keyOverride'.isActive
            THEN keyHistory' = <<>> /\ lastOp'.reset
            ELSE keyHistory' = keyHistory /\ ~lastOp'.reset]_vars
    /\ [][StepOf("Reset") => keyHistory' = <<>>]_vars
    /\ [](lastCleared >= 0 /\ lastOp.detectCalled /\ Len(accepted) = 1 /\ keyResult # NULL
            => /\ keyResult.key = rawResult.key
               /\ keyResult.mode = rawResult.mode
               /\ keyResult.confidence = rawResult.confidence)

\* A reset cleared a history of three entries or more while no override was
\* left active, and the next call of detectKey accepted its chroma.
C2_Witness ==
    /\ lastCleared >= 3
    /\ ~keyOverride.isActive
    /\ lastOp.detectCalled
    /\ Len(accepted) = 1
    /\ keyResult # NULL

\* C4: the key history never holds more than historyLength estimates, and it
\* is the most recent accepted estimates since the last reset, oldest first.
C4_HistoryIsLastFive ==
    /\ Len(keyHistory) <= 5
    /\ keyHistory = LastN(accepted, 5)

\* A sixth estimate was accepted and the oldest one, of another key, is gone.
C4_Witness ==
    /\ Len(accepted) = 6
    /\ accepted[1].key # accepted[2].key
    /\ Len(keyHistory) = 5
    /\ keyHistory[1] = accepted[2]

\* C5: a detection accepted while the history, the new entry included, holds
\* fewer than three entries is returned as it is: key, mode and confidence of
\* the newest entry, no vote.
C5_FastStartUnsmoothed ==
    lastOp.detectCalled /\ keyResult # NULL /\ Len(keyHistory) < 3
        => /\ keyResult = keyHistory[Len(keyHistory)]
           /\ keyResult.key = rawResult.key
           /\ keyResult.mode = rawResult.mode
           /\ keyResult.confidence = rawResult.confidence

\* Two entries of different keys are held and the newer one was returned.
C5_Witness ==
    /\ lastOp.detectCalled
    /\ keyResult # NULL
    /\ Len(keyHistory) = 2
    /\ keyHistory[1].key # keyHistory[2].key
    /\ keyResult.key = keyHistory[2].key

(***************************************************************************)
(* App and SmartAudioProcessor: override, stop, the per-frame result (Spec)  *)
(***************************************************************************)
\* C1: a frame processed while a key override is active does not call
\* detectKey, also when the override was activated after start().
C1_OverrideBypassesDetector ==
    lastOp.pipeline /\ keyOverride.isActive => ~lastOp.detectCalled

\* C3: right after toggleRecording has stopped the processor, every piece of
\* analysis state has its initial value.
C3_StopRestoresInitialState ==
    lastOp.name = "ToggleStop" =>
        /\ noiseFloor = InitialNoiseFloor
        /\ pitchHistory = <<>> /\ harmonicHistory = <<>> /\ pitchStabilityHistory = <<>>
        /\ amplitudeHistory = <<>> /\ beatHistory = <<>> /\ tempoHistory = <<>>
        /\ lastBeatTime = 0
        /\ lastMelodyNote = NoNote /\ lastMelodyNoteTime = 0
        /\ lastChordNotes = <<>> /\ lastChordTime = 0
        /\ keyHistory = <<>>

\* Noise floors from -120 dB to 0 dB
FloorSamples == {d * NfScale : d \in -120..0}

\* The frame just processed had an all-zero buffer.
SilentTick == lastOp.pipeline /\ delivered.amplitude = -90

C7_ResultShape ==
    lastOp.pipeline =>
        /\ delivered.state \in {"idle", "noise_detected", "musical_input"}
        /\ delivered.state # "processing"
        /\ delivered.state = "idle" <=> ~delivered.noiseGateOpen
        /\ delivered.state = "idle" =>
               /\ delivered.pitch = NULL
               /\ delivered.chroma = NoChroma
               /\ delivered.harmonyAnalysis = NULL
        /\ delivered.state = "musical_input" <=>
               delivered.noiseGateOpen /\ lastOp.candidates > 0 /\ lastOp.musical
        /\ delivered.chroma # NoChroma <=> delivered.state = "musical_input"
        /\ delivered.harmonyAnalysis # NULL <=> delivered.pitch # NULL

\* A frame with a pitch the classifier rejected: noise_detected, a harmony
\* analysis and no chroma.
C7_Witness ==
    /\ lastOp.pipeline
    /\ delivered.state = "noise_detected"
    /\ delivered.pitch # NULL
    /\ delivered.harmonyAnalysis # NULL
    /\ delivered.chroma = NoChroma

(***************************************************************************)
(* SmartAudioProcessor: rhythm (SpecRhythm)                                *)
(***************************************************************************)
\* The frame just processed ran analyzeRhythm: rhythmOut is what it returned.
RhythmTick == lastOp.pipeline /\ lastOp.candidates > 0

\* C8: every RhythmData returned has its tempo in [60,200] and its
\* currentBeat in [1,4], and isOnBeat says that less than 100 ms have passed
\* since the last registered beat.
C8_RhythmDataRanges ==
    RhythmTick =>
        /\ rhythmOut.tempo >= 60 /\ rhythmOut.tempo <= 200
        /\ rhythmOut.currentBeat >= 1 /\ rhythmOut.currentBeat <= 4
        /\ rhythmOut.isOnBeat <=> (now - lastBeatTime < 100)

\* The estimate is above 200 and the tempo returned on a beat is 200.
C8_Witness ==
    /\ RhythmTick
    /\ tempoHistory # <<>>
    /\ tempoHistory[Len(tempoHistory)] > 200
    /\ rhythmOut.tempo = 200
    /\ rhythmOut.isOnBeat

\* C9: getCurrentTempo() is within [60,200] after any frames and beats.
C9_CurrentTempoInRange ==
    getCurrentTempo(tempoHistory) >= 60 /\ getCurrentTempo(tempoHistory) <= 200

\* 60000/d rounded to the nearest integer, clamped to [60,200]
RoundedTempo(d) == Max(60, Min(200, (2 * 60000 + d) \div (2 * d)))

\* C10, as the code has it: with fewer than four beats registered since the
\* histories were last cleared the tempo returned is 120; once four or more
\* have been registered, all d ms apart, it is 60000/d rounded to the nearest
\* integer and clamped to [60,200], on the frame of a beat and on every
\* later frame.
C10_TempoOfConstantSpacing ==
    RhythmTick =>
        /\ beatsSeen < 4 => rhythmOut.tempo = 120
        /\ beatsSeen >= 4 /\ uniformSpacing > 0 =>
               rhythmOut.tempo = RoundedTempo(uniformSpacing)

\* Four beats 350 ms apart, and a later frame without a beat: 171.
C10_Witness ==
    /\ RhythmTick
    /\ beatsSeen >= 4
    /\ uniformSpacing = 350
    /\ now > lastBeatTime
    /\ rhythmOut.tempo = 171

\* C10 as stated: default 120 with fewer than four beats, then exactly
\* 60000/d clamped to [60,200].
C10_TempoIsExactQuotient ==
    RhythmTick =>
        /\ beatsSeen < 4 => rhythmOut.tempo = 120
        /\ beatsSeen >= 4 /\ uniformSpacing > 0 =>
               IF 60000 >= 200 * uniformSpacing THEN rhythmOut.tempo = 200
               ELSE IF 60000 <= 60 * uniformSpacing THEN rhythmOut.tempo = 60
               ELSE rhythmOut.tempo * uniformSpacing = 60000


(***************************************************************************)
(* Melody and harmony separation (SpecHarmony)                             *)
(***************************************************************************)
\* The frame just processed ran analyzeMelodyHarmony in the default mode.
DefaultHarmonyTick ==
    /\ lastOp.pipeline
    /\ lastOp.candidates > 0
    /\ ~polyphonicMode

\* The place of candidate i when the candidates are ordered bass to treble.
RankByFrequency(P, i) ==
    1 + Cardinality({j \in 1..Len(P) : P[j].frequency < P[i].frequency})

\* Candidates i and j are neighbours in frequency, i below j.
FrequencyAdjacent(P, i, j) ==
    /\ P[i].frequency < P[j].frequency
    /\ ~\E k \in 1..Len(P) : /\ P[i].frequency < P[k].frequency
                              /\ P[k].frequency < P[j].frequency

\* C11: in the default mode a frame with two or more candidates is a chord
\* of all its candidates (no melody) when it has at least three candidates
\* and two frequency-adjacent ones lie 3, 4, 5 or 7 semitones apart;
\* otherwise the highest candidate is the only melody note, the lower ones
\* are the chord notes and the type is both.
C11_ChordOrMelodyWithHarmony ==
    (DefaultHarmonyTick /\ lastOp.candidates >= 2) =>
        LET P == lastOp.pitches
            h == delivered.harmonyAnalysis
            chordal == /\ Len(P) >= 3
                       /\ \E i, j \in 1..Len(P) :
                              /\ FrequencyAdjacent(P, i, j)
                              /\ calculateSemitones(P[i].frequency, P[j].frequency)
                                     \in {3, 4, 5, 7}
        IN  IF chordal
            THEN /\ h.harmonyType = "chord"
                 /\ h.melodyNotes = <<>>
                 /\ Len(h.chordNotes) = Len(P)
                 /\ \A i \in 1..Len(P) :
                        h.chordNotes[RankByFrequency(P, i)] = frequencyToNote(P[i].frequency)
            ELSE /\ h.harmonyType = "both"
                 /\ Len(h.melodyNotes) = 1
                 /\ Len(h.chordNotes) = Len(P) - 1
                 /\ \A i \in 1..Len(P) :
                        IF RankByFrequency(P, i) = Len(P)
                        THEN h.melodyNotes[1] = frequencyToNote(P[i].frequency)
                        ELSE h.chordNotes[RankByFrequency(P, i)] =
                                 frequencyToNote(P[i].frequency)

\* A C major triad was heard as the chord C, E, G.
C11_Witness ==
    /\ DefaultHarmonyTick
    /\ lastOp.candidates = 3
    /\ delivered.harmonyAnalysis.harmonyType = "chord"
    /\ delivered.harmonyAnalysis.chordNotes = <<"C", "E", "G">>
    /\ delivered.harmonyAnalysis.melodyNotes = <<>>


(***************************************************************************)
(* Steady input (SpecSteady)                                               *)
(***************************************************************************)
\* The last n accepted detections are the same raw estimate.
LastAcceptedAlike(n) ==
    /\ Len(accepted) >= n
    /\ \A i \in (Len(accepted) - n + 1)..Len(accepted) : accepted[i] = accepted[Len(accepted)]

\* The last call of detectKey accepted its chroma.
AcceptedDetection == lastOp.detectCalled /\ keyResult # NULL

\* Key and mode are those of the raw estimate from the third identical
\* detection in a row on; from the fifth on the whole estimate is the raw one.
KeySettles ==
    AcceptedDetection =>
        /\ LastAcceptedAlike(3) =>
               keyResult.key = rawResult.key /\ keyResult.mode = rawResult.mode
        /\ LastAcceptedAlike(5) => keyResult = rawResult

\* Every tick from the i-th on had the primary pitch of the last tick.
SteadySince(i) ==
    \A k \in i..Len(pitchHistory) : pitchHistory[k] = pitchHistory[Len(pitchHistory)]

\* While one single note is fed, the emitted note never leaves it once it
\* has got there.  (With one candidate per tick, melodySequence and
\* pitchHistory have an entry for every tick.)
MelodySettles ==
    (pitchHistory # <<>> /\ ~polyphonicMode /\ Len(melodySequence) = Len(pitchHistory)) =>
        LET n == frequencyToNote(pitchHistory[Len(pitchHistory)].frequency)
        IN  \A i, j \in 1..Len(melodySequence) :
                (i < j /\ SteadySince(i) /\ melodySequence[i].note = n) =>
                    melodySequence[j].note = n

\* A tick with the single note n, when no other note is remembered or the
\* remembered one was refreshed 200 ms ago or earlier, emits and remembers n.
MelodyStep ==
    (ticks' = ticks + 1 /\ lastOp'.candidates = 1 /\ ~polyphonicMode) =>
        LET n == frequencyToNote(lastOp'.pitches[1].frequency)
        IN  (\/ lastMelodyNote \in {n, NoNote}
             \/ now' - lastMelodyNoteTime >= melodyNoteMemoryMs) =>
                /\ delivered'.harmonyAnalysis.melodyNotes = <<n>>
                /\ lastMelodyNote' = n

\* C12: fed the identical accepted chroma on every tick, detectKey returns
\* the raw key and mode from the third identical detection on and, from the
\* fifth on, the raw estimate itself (key, mode and confidence); fed the same
\* single note on every tick, the processor emits that note on every tick
\* once 200 ms have passed since the remembered note was last refreshed.
C12_SteadyInputSettles ==
    /\ [](KeySettles /\ MelodySettles)
    /\ [][MelodyStep]_vars

\* A C4 held for five ticks after a C#4: the C# was re-emitted at first, then
\* the C; the fifth C major estimate comes back unsmoothed although the
\* history held A minor before.
C12_Witness ==
    /\ AcceptedDetection
    /\ LastAcceptedAlike(5)
    /\ Len(accepted) > 5
    /\ keyResult = rawResult
    /\ ~polyphonicMode
    /\ Len(melodySequence) = Len(pitchHistory)
    /\ SteadySince(Len(pitchHistory) - 4)
    /\ melodySequence[Len(melodySequence) - 4].note = "C#"
    /\ melodySequence[Len(melodySequence)].note = "C"
    /\ delivered.harmonyAnalysis.melodyNotes = <<"C">>


(***************************************************************************)
(* KeyDetector: what detectKey makes of its argument (SpecInputs)          *)
(***************************************************************************)
\* The first detectKey call of a new KeyDetector has just returned.
FirstDetection == lastOp.name = "DetectKey" /\ calls = 1

\* C13: given the normalized profile of a mode rotated to a root, a fresh
\* KeyDetector returns that root and that mode with a confidence above 0.9,
\* for each of the 24 pairs of root and mode.
C13_ProfileFindsItsKey ==
    \A k \in 1..24 :
        LET root == KeyCandidates[k].root
            mode == KeyCandidates[k].mode
        IN  (FirstDetection /\ lastOp.chroma = ProfileChroma(root, mode)) =>
                /\ keyResult # NULL
                /\ keyResult.key = NOTE_NAMES[root + 1]
                /\ keyResult.mode = mode
                /\ 10 * keyResult.confidence > 9 * ConfScale

\* The minor profile with its tonic on A was heard as A minor.
C13_Witness ==
    /\ FirstDetection
    /\ lastOp.chroma = ProfileChroma(9, "minor")
    /\ keyResult # NULL
    /\ keyResult.key = "A"
    /\ keyResult.mode = "minor"
    /\ 10 * keyResult.confidence > 9 * ConfScale


(***************************************************************************)
(* The chroma vector (SpecChroma)                                          *)
(***************************************************************************)
\* C14: a chroma vector returned by calculateChroma has 12 entries, none of
\* them negative, which are all zero or sum to 1 (here: to ChromaScale, each
\* entry rounded to the nearest unit); the entry at the dominant index is the
\* greatest and the confidence is its value.
C14_ChromaIsNormalized ==
    lastOp.chromaData # NULL =>
        LET cd == lastOp.chromaData
            v == cd.vector
        IN  /\ Len(v) = 12
            /\ \A i \in 1..12 : v[i] >= 0
            /\ \/ \A i \in 1..12 : v[i] = 0
               \/ Abs(SumSeq(v) - ChromaScale) <= 6
            /\ cd.dominant \in 0..11
            /\ \A i \in 1..12 : v[i] <= v[cd.dominant + 1]
            /\ cd.confidence = v[cd.dominant + 1]

\* A spectrum with equal energy on C4 and C5 and ten times more on G4: the
\* two C partials add up, G dominates.
C14_Witness ==
    /\ lastOp.chromaData # NULL
    /\ lastOp.chromaData.dominant = 7
    /\ lastOp.chromaData.vector[1] > 0
    /\ lastOp.chromaData.vector[8] > lastOp.chromaData.vector[1]
    /\ lastOp.chromaData.confidence = lastOp.chromaData.vector[8]
    /\ delivered.chroma = lastOp.chromaData.vector

\* Twelve equal entries whose sum is at least 0.01.
FlatAudible(chroma) ==
    /\ Len(chroma) = 12
    /\ \A i \in 1..12 : chroma[i] = chroma[1]
    /\ SumSeq(chroma) * 100 >= ChromaScale

\* C15: a chroma vector of twelve equal entries that sum to 0.01 or more
\* scores 0 for every key; detectKey returns no estimate for it and no
\* history entry is made of it.
C15_FlatChromaGivesNoEstimate ==
    /\ (lastOp.name = "DetectKey" /\ FlatAudible(lastOp.chroma)) =>
           /\ \A k \in 1..24 :
                  calculateKeyScore(lastOp.chroma, KeyCandidates[k].root,
                                    KeyCandidates[k].mode) = 0
           /\ keyResult = NULL
    /\ \A i \in 1..Len(keyHistory) : ~FlatAudible(keyHistory[i].chroma)


(***************************************************************************)
(* KeyDetector: the vote (SpecKey)                                         *)
(***************************************************************************)
\* How many history entries have the key and mode of r.
Occurrences(r) ==
    Cardinality({i \in 1..Len(keyHistory) :
                    keyHistory[i].key = r.key /\ keyHistory[i].mode = r.mode})

\* C16: with three or more entries in the history after the push, detectKey
\* returns a key and mode that no other pair of the history outnumbers, with
\* the confidence min(1, (occurrences / 5) x confidence of the newest entry):
\* 5 also for a history of 3 or 4, the newest entry also when it lost the vote.
C16_VoteAndConfidence ==
    (AcceptedDetection /\ Len(keyHistory) >= 3) =>
        LET newest == keyHistory[Len(keyHistory)]
        IN  /\ Occurrences(keyResult) >= 1
            /\ \A i \in 1..Len(keyHistory) :
                   Occurrences(keyHistory[i]) <= Occurrences(keyResult)
            /\ keyResult.confidence =
                   Min(ConfScale, (Occurrences(keyResult) * newest.confidence) \div 5)

\* Four entries, the newest of a key that lost the vote two to one or three
\* to one: the winner comes back with the newest entry's confidence scaled.
C16_Witness ==
    /\ AcceptedDetection
    /\ Len(keyHistory) = 4
    /\ keyResult.key # keyHistory[4].key
    /\ Occurrences(keyResult) >= 2
    /\ keyResult.confidence < keyHistory[4].confidence
    /\ keyResult.confidence # keyHistory[1].confidence


(***************************************************************************)
(* KeyDetector: rejected arguments (SpecInputs)                            *)
(***************************************************************************)
\* For each vector of 12 entries: every one of the 24 keys has a confidence
\* below the threshold, so the best one has.
BestBelowThreshold ==
    [c \in {x \in DetectorInputs : Len(x) = 12} |->
        \A k \in 1..24 :
            normalizeScore(calculateKeyScore(c, KeyCandidates[k].root, KeyCandidates[k].mode))
                < confidenceThreshold]

\* The three grounds on which detectKey turns a vector down.
Rejected(c) ==
    \/ Len(c) # 12
    \/ SumSeq(c) * 100 < ChromaScale
    \/ BestBelowThreshold[c]

\* A step that is one detectKey call.
DetectKeyStep == lastOp'.name = "DetectKey" /\ calls' = calls + 1

\* C17: detectKey returns no estimate and leaves the history as it was when
\* the vector has not 12 entries, sums to less than 0.01 or has a best
\* confidence below 0.05; any other call pushes one entry, made of its vector.
C17_RejectedLeavesHistory ==
    [][DetectKeyStep =>
        IF Rejected(lastOp'.chroma)
        THEN keyResult' = NULL /\ keyHistory' = keyHistory
        ELSE /\ keyResult' # NULL
             /\ keyHistory' # <<>>
             /\ keyHistory'[Len(keyHistory')].chroma = lastOp'.chroma
             /\ keyHistory' = LastN(Append(keyHistory, keyHistory'[Len(keyHistory')]), 5)]_vars

\* A vector that sums to 0.009 was turned down by a detector that holds an
\* entry: nothing came back and the entry is still the only one.
C17_Witness ==
    /\ lastOp.name = "DetectKey"
    /\ lastOp.chroma = ChromaFaint
    /\ keyResult = NULL
    /\ Len(keyHistory) = 1
    /\ accepted = keyHistory


(***************************************************************************)
(* The noise gate (SpecGate)                                               *)
(***************************************************************************)
\* A step that processes one frame.
TickStep == ticks' = ticks + 1

\* C18: every tick first moves the noise floor to 0.999 of itself plus 0.001
\* of the amplitude, whether the gate opens or not, and then opens the gate
\* exactly when the amplitude is above both the new floor plus 8 dB and
\* thresholdMin; the gate is never open at or below thresholdMin.
C18_FloorThenGate ==
    [][TickStep =>
        LET a == delivered'.amplitude
        IN  /\ noiseFloor' - noiseFloor = (a * NfScale - noiseFloor) \div 1000
            /\ delivered'.noiseGateOpen <=>
                   /\ a * NfScale > noiseFloor' + 8 * NfScale
                   /\ a > thresholdMin
            /\ a <= thresholdMin => ~delivered'.noiseGateOpen]_vars

\* A tone 20 dB and more above the floor found the gate closed, because
\* thresholdMin had been raised above it; the floor moved all the same.
C18_Witness ==
    /\ lastOp.pipeline
    /\ ~delivered.noiseGateOpen
    /\ delivered.amplitude * NfScale > noiseFloor + 20 * NfScale
    /\ delivered.amplitude <= thresholdMin
    /\ noiseFloor > InitialNoiseFloor


(***************************************************************************)
(* Beat registration (SpecBeat)                                            *)
(***************************************************************************)
\* A step that processes one frame and runs analyzeRhythm on it.
RhythmStep == ticks' = ticks + 1 /\ lastOp'.candidates > 0

\* C19: a tick registers a beat exactly when its onset strength is above 0.6
\* and 200 ms or more have passed since the last registered beat (an onset
\* exactly 200 ms after a beat is registered); two registered beats are
\* never less than 200 ms apart.
C19_BeatAfterTwoHundredMs ==
    /\ [][RhythmStep =>
            (beatsSeen' = beatsSeen + 1 <=>
                /\ 10 * rhythmOut'.beatStrength > 6 * StrengthScale
                /\ now' - lastBeatTime >= 200)]_vars
    /\ [](\A i \in 2..Len(beatHistory) : beatHistory[i] - beatHistory[i - 1] >= 200)


(***************************************************************************)
(* The single-note memory (SpecHarmony)                                    *)
(***************************************************************************)
\* A step that processes a frame with exactly one candidate in default mode.
SingleNoteStep == ticks' = ticks + 1 /\ lastOp'.candidates = 1 /\ ~polyphonicMode

\* The note of the one candidate of the step.
DetectedNote == frequencyToNote(lastOp'.pitches[1].frequency)

\* The single-note step emits the remembered note when hold is true, and
\* then leaves note and timestamp alone; otherwise it emits the detected
\* note; the result is a melody without chord notes.
SingleNoteRule(hold) ==
    LET h == delivered'.harmonyAnalysis
    IN  /\ h.harmonyType = "melody"
        /\ h.chordNotes = <<>>
        /\ IF hold
           THEN /\ h.melodyNotes = <<lastMelodyNote>>
                /\ lastMelodyNote' = lastMelodyNote
                /\ lastMelodyNoteTime' = lastMelodyNoteTime
           ELSE h.melodyNotes = <<DetectedNote>>

\* When the remembered note became the note it is: the time of the first
\* entry of the run of that note at the end of melodySequence (every
\* single-note tick since cleanup() has an entry there).
LastChangeTime ==
    LET run == {i \in 1..Len(melodySequence) :
                   \A k \in i..Len(melodySequence) :
                       melodySequence[k].note = lastMelodyNote}
    IN  IF run = {} THEN lastMelodyNoteTime
        ELSE melodySequence[CHOOSE i \in run : \A j \in run : i <= j].time

\* Another note than the detected one is remembered and was accepted less
\* than 200 ms ago.
HeldSinceAccepted ==
    /\ lastMelodyNote \notin {DetectedNote, NoNote}
    /\ now' - lastMelodyNoteTime < melodyNoteMemoryMs

\* Another note than the detected one is remembered and became the
\* remembered note less than 200 ms ago.
HeldSinceChanged ==
    /\ lastMelodyNote \notin {DetectedNote, NoNote}
    /\ now' - LastChangeTime < melodyNoteMemoryMs

\* C20: in default mode a frame with one candidate yields a melody of one
\* note and no chord notes: the detected note, except when another note is
\* remembered and was last accepted (detected and emitted) less than 200 ms
\* ago; then the remembered note is emitted, and note and timestamp of the
\* memory stay as they are.
C20_SingleNoteDebounce == [][SingleNoteStep => SingleNoteRule(HeldSinceAccepted)]_vars

\* C20 as stated: the 200 ms count from the moment the remembered note last
\* changed.
C20_DebounceSinceLastChange == [][SingleNoteStep => SingleNoteRule(HeldSinceChanged)]_vars

\* A C4 was detected while an A was remembered from less than 200 ms before:
\* the A was emitted once more and its timestamp is still the old one.
C20_Witness ==
    /\ lastOp.pipeline
    /\ lastOp.candidates = 1
    /\ ~polyphonicMode
    /\ frequencyToNote(lastOp.pitches[1].frequency) = "C"
    /\ lastMelodyNote = "A"
    /\ delivered.harmonyAnalysis.melodyNotes = <<"A">>
    /\ delivered.harmonyAnalysis.harmonyType = "melody"
    /\ lastMelodyNoteTime < now
    /\ now - lastMelodyNoteTime < melodyNoteMemoryMs


(***************************************************************************)
(* Polyphonic mode (SpecPoly)                                              *)
(***************************************************************************)
\* A step that processes a frame with candidates in polyphonic mode.
PolyphonicStep == ticks' = ticks + 1 /\ lastOp'.candidates > 0 /\ polyphonicMode

\* The candidate has a confidence above 0.05.
StrongPitch(p) == 100 * p.confidence > 5 * ConfScale

\* The note names of a list of candidates, in the order of the list.
NoteNames(P) == [i \in 1..Len(P) |-> frequencyToNote(P[i].frequency)]

\* C21: in polyphonic mode a frame with candidates yields a chord without
\* melody.  Its chord notes are the notes of the candidates with a confidence
\* above 0.05 when there are two or more of them, and these are then cached
\* with the current time; with fewer than two they are the cached notes when
\* these were cached less than 50 ms ago, and none otherwise (the cache then
\* stays as it is).
C21_PolyphonicChordAndCache ==
    [][PolyphonicStep =>
        LET strong == SelectSeq(lastOp'.pitches, StrongPitch)
            h == delivered'.harmonyAnalysis
        IN  /\ h.harmonyType = "chord"
            /\ h.melodyNotes = <<>>
            /\ IF Len(strong) >= 2
               THEN /\ h.chordNotes = NoteNames(strong)
                    /\ lastChordNotes' = NoteNames(strong)
                    /\ lastChordTime' = now'
               ELSE /\ h.chordNotes =
                           IF lastChordNotes # <<>> /\ now' - lastChordTime < 50
                           THEN lastChordNotes ELSE <<>>
                    /\ UNCHANGED <<lastChordNotes, lastChordTime>>]_vars

\* A single note after a chord: the chord cached 25 ms before came back.
C21_Witness ==
    /\ lastOp.pipeline
    /\ polyphonicMode
    /\ lastOp.candidates = 1
    /\ delivered.harmonyAnalysis.harmonyType = "chord"
    /\ Len(delivered.harmonyAnalysis.chordNotes) >= 2
    /\ delivered.harmonyAnalysis.chordNotes = lastChordNotes
    /\ now - lastChordTime = 25


(***************************************************************************)
(* The ranked candidates (SpecPeaks)                                       *)
(***************************************************************************)
\* The spectral peaks that are within 10 Hz of no frequency included before
\* them, behind the frequencies included already.
RECURSIVE WithoutDuplicates(_, _)
WithoutDuplicates(included, peaks) ==
    IF peaks = <<>> THEN included
    ELSE IF \E i \in 1..Len(included) :
                Abs(included[i].frequency - Head(peaks).frequency) < 10
         THEN WithoutDuplicates(included, Tail(peaks))
         ELSE WithoutDuplicates(Append(included, Head(peaks)), Tail(peaks))

Entries(s) == {s[i] : i \in 1..Len(s)}

\* C22: the ranked candidates of a frame are the monophonic estimate, if any,
\* and every spectral peak (confidence above 0.2, at most 8 of them) that is
\* within 10 Hz of no frequency included before it, sorted by confidence
\* descending and cut to 6: such a peak is missing only when 6 candidates at
\* least as confident are listed, and the first candidate has the highest
\* confidence of all.
C22_RankedCandidates ==
    lastOp.merged =>
        LET list == lastOp.pitches
            first == IF lastOp.frame.mono = NULL THEN <<>> ELSE <<lastOp.frame.mono>>
            all == WithoutDuplicates(first, lastOp.frame.peaks)
        IN  /\ Len(lastOp.frame.peaks) <= 8
            /\ \A i \in 1..Len(lastOp.frame.peaks) : 10 * lastOp.frame.peaks[i].confidence > 2 * ConfScale
            /\ Len(list) = Min(6, Len(all))
            /\ Entries(list) \subseteq Entries(all)
            /\ Cardinality(Entries(list)) = Len(list)
            /\ \A i \in 1..(Len(list) - 1) : list[i].confidence >= list[i + 1].confidence
            /\ \A p \in Entries(all) \ Entries(list) :
                   Len(list) = 6 /\ p.confidence <= list[6].confidence
            /\ \A p \in Entries(all) : list[1].confidence >= p.confidence

\* Eight spectral peaks next to a monophonic estimate: one of the peaks is a
\* duplicate of the estimate, two more fell to the cap of 6.
C22_Witness ==
    /\ lastOp.merged
    /\ lastOp.frame.mono # NULL
    /\ Len(lastOp.frame.peaks) = 8
    /\ \E i \in 1..8 : Abs(lastOp.frame.peaks[i].frequency - lastOp.frame.mono.frequency) < 10
    /\ Len(lastOp.pitches) = 6
    /\ \E i \in 1..8 :
           /\ Abs(lastOp.frame.peaks[i].frequency - lastOp.frame.mono.frequency) >= 10
           /\ lastOp.frame.peaks[i] \notin Entries(lastOp.pitches)


(***************************************************************************)
(* The classifier (SpecMusical)                                            *)
(***************************************************************************)
\* The last operation ran isMusicalContent.
Classified == lastOp.pipeline /\ lastOp.candidates > 0

\* The three voice filters on the frame of the last operation.
FormantFilter == 100 * lastOp.frame.formantShare > 40 * ConfScale

\* The mean of |12 log2(current / previous)| over the pitch history exceeds
\* 0.5 semitones.
PitchChangeFilter ==
    /\ Len(pitchHistory) >= 2
    /\ 2 * SumSeq([i \in 1..(Len(pitchHistory) - 1) |->
                      Abs(Semitones1024(pitchHistory[i + 1].frequency,
                                        pitchHistory[i].frequency))])
           > 1024 * (Len(pitchHistory) - 1)

VoiceBandFilter ==
    /\ lastOp.frame.centroid > 150
    /\ lastOp.frame.centroid < 1200
    /\ 100 * lastOp.frame.zcr > 12 * ConfScale

\* The five signals: harmonic, stable, centroid in range, low zero-crossing
\* rate, sustained.
SignalsHeld ==
    <<MeanAbove(harmonicHistory, 18),
      MeanAbove(pitchStabilityHistory, 35),
      lastOp.frame.centroid > 150 /\ lastOp.frame.centroid < 4186,
      100 * lastOp.frame.zcr < 12 * ConfScale,
      detectSustainedTone(pitchHistory)>>

SignalCount == Cardinality({i \in 1..5 : SignalsHeld[i]})

MusicalVerdict(vibrato) ==
    Classified =>
        /\ lastOp.musical <=>
               (~FormantFilter /\ ~vibrato /\ ~VoiceBandFilter /\ SignalCount >= 3)
        /\ delivered.state = IF lastOp.musical THEN "musical_input" ELSE "noise_detected"

\* C23: a frame is classified as musical exactly when none of the three voice
\* filters triggers (formant share above 40%; mean pitch change above 0.5
\* semitones per frame, looked at once the pitch history holds 6 pitches;
\* centroid in the voice band with a zero-crossing rate above 0.12) and at
\* least 3 of the 5 signals hold.
C23_MusicalVerdict == MusicalVerdict(Len(pitchHistory) >= 6 /\ PitchChangeFilter)

\* C23 as stated: a mean pitch change above 0.5 semitones per frame rules the
\* frame out however short the pitch history is.
C23_PitchChangeAlwaysFilters == MusicalVerdict(PitchChangeFilter)

\* A filter alone made noise of a frame on which all 5 signals held.
C23_Witness ==
    /\ Classified
    /\ SignalCount = 5
    /\ ~lastOp.musical
    /\ Len(pitchHistory) >= 6
    /\ PitchChangeFilter
    /\ ~FormantFilter
    /\ ~VoiceBandFilter


(***************************************************************************)
(* Chord notes (SpecOctave)                                                *)
(***************************************************************************)
NoRepeats(s) == \A i, j \in 1..Len(s) : i # j => s[i] # s[j]

\* C24: the chord notes of every harmony analysis are a set of note names: no
\* name occurs twice among them, also when two candidates lie one or more
\* octaves apart.
C24_ChordNotesAreASet ==
    (delivered # NULL /\ delivered.harmonyAnalysis # NULL) =>
        NoRepeats(delivered.harmonyAnalysis.chordNotes)


(***************************************************************************)
(* Rolling histories (SpecLong)                                            *)
(***************************************************************************)
\* From old to new the history stayed as it was, was emptied, or took one
\* entry at its end, giving up its first entry when it was full.
Rolled(old, new, cap) ==
    \/ new = old
    \/ new = <<>>
    \/ /\ Len(old) < cap
       /\ Len(new) = Len(old) + 1
       /\ SubSeq(new, 1, Len(old)) = old
    \/ /\ Len(old) = cap
       /\ Len(new) = cap
       /\ SubSeq(new, 1, cap - 1) = Tail(old)

\* The history took x at its end.
Took(old, new, cap, x) ==
    new # <<>> /\ new[Len(new)] = x /\ Len(new) = Min(Len(old) + 1, cap)

\* C25: the rolling histories never exceed their capacities, 12 primary
\* pitches, 6 harmonic ratios, 8 stabilities, 100 amplitudes, 8 beat times
\* and 5 tempos, and each gives up its oldest entry first; a frame with
\* candidates puts its primary pitch, its harmonic ratio and its amplitude
\* at the end of their histories, a beat its time.
C25_HistoriesRoll ==
    [][/\ Len(pitchHistory') <= 12 /\ Rolled(pitchHistory, pitchHistory', 12)
       /\ Len(harmonicHistory') <= 6 /\ Rolled(harmonicHistory, harmonicHistory', 6)
       /\ Len(pitchStabilityHistory') <= 8
       /\ Rolled(pitchStabilityHistory, pitchStabilityHistory', 8)
       /\ Len(amplitudeHistory') <= 100 /\ Rolled(amplitudeHistory, amplitudeHistory', 100)
       /\ Len(beatHistory') <= 8 /\ Rolled(beatHistory, beatHistory', 8)
       /\ Len(tempoHistory') <= 5 /\ Rolled(tempoHistory, tempoHistory', 5)
       /\ (ticks' = ticks + 1 /\ lastOp'.candidates > 0) =>
              /\ Took(pitchHistory, pitchHistory', 12, delivered'.pitch)
              /\ Took(harmonicHistory, harmonicHistory', 6, lastOp'.frame.harmonicRatio)
              /\ Len(pitchStabilityHistory') = Min(Len(pitchStabilityHistory) + 1, 8)
              /\ Took(amplitudeHistory, amplitudeHistory', 100, delivered'.amplitude)
              /\ beatsSeen' > beatsSeen => Took(beatHistory, beatHistory', 8, now')]_vars

\* Every history is full and the amplitude history has dropped entries.
C25_Witness ==
    /\ ticks > 102
    /\ Len(pitchHistory) = 12
    /\ Len(harmonicHistory) = 6
    /\ Len(pitchStabilityHistory) = 8
    /\ Len(amplitudeHistory) = 100
    /\ Len(beatHistory) = 8
    /\ Len(tempoHistory) = 5
    /\ beatsSeen > 8


(***************************************************************************)
(* The frame loop (Spec)                                                   *)
(***************************************************************************)
\* C26: at most one frame loop is scheduled at any time, so that an animation
\* frame runs the pipeline and the callback at most once, also when start()
\* is called while the processor is processing already.
C26_OneFrameLoop == Cardinality(frames) <= 1


\* C27: whenever the App shows listening as active (isRecording), the
\* processor is processing frames: isProcessing is set and it holds an
\* analyser, also after the user stopped listening and started again.
C27_RecordingMeansProcessing == isRecording => (isProcessing /\ analyser)


\* C28: once stop() has been called and no initialize() is pending any more,
\* the processor holds no media stream, audio context or analyser, and every
\* media stream that was granted has been stopped.
C28_StopReleasesEverything ==
    (lastOp.name = "ToggleStop" /\ pendingInit = {}) =>
        /\ mediaStream = 0
        /\ audioContext = "none"
        /\ ~analyser
        /\ liveStreams = {}


(***************************************************************************)
(* A signal of constant level (SpecConstant)                               *)
(***************************************************************************)
\* The noise floor moved towards the amplitude a without passing it.
MovedTowards(a) ==
    \/ noiseFloor <= noiseFloor' /\ noiseFloor' <= a * NfScale
    \/ noiseFloor >= noiseFloor' /\ noiseFloor' >= a * NfScale

GateClosed == ~delivered.noiseGateOpen

\* C29: with the same amplitude on every tick the noise floor moves
\* monotonically towards that amplitude, and once frames are processed the
\* gate is eventually closed and stays closed on every later tick.
C29_ConstantLevelClosesGate ==
    /\ [][TickStep => MovedTowards(delivered'.amplitude)]_vars
    /\ (ticks > 0) ~> [](ticks > 0 /\ GateClosed)

\* The gate had let a tone of -50 dB through, long enough for a key to be
\* detected, and is closed on it now.
C29_Witness ==
    /\ lastOp.pipeline
    /\ delivered.amplitude = -50
    /\ GateClosed
    /\ keyResult # NULL
    /\ noiseFloor > -58 * NfScale


(***************************************************************************)
(* The gate threshold (SpecGate)                                           *)
(***************************************************************************)
\* C30: after any sequence of setGateThreshold and setNoiseGateThreshold
\* calls the value getGateThreshold() returns lies within thresholdMin and
\* thresholdMax of the noise gate.
C30_GateThresholdInRange == thresholdMin <= gateThreshold /\ gateThreshold <= thresholdMax

=============================================================================
